---- MODULE Spec2Model ----
(***************************************************************************)
(* Model of the ZipCrack cracking engine: the Runner pipeline of           *)
(* internal/cracker/runner.go (generator, workers, stats sampler,          *)
(* completion goroutine), the verifier backends it drives and the TUI      *)
(* consumer of its two channels.                                           *)
(*                                                                         *)
(* Go slices are 0-based; TLA+ sequences are 1-based.  Worker ids and      *)
(* match indices keep the Go numbering (0 .. n-1); b[i] of the source is   *)
(* b[i + 1] here.  A candidate password is a sequence of symbols.          *)
(***************************************************************************)
EXTENDS Integers, Sequences, FiniteSets, TLC

(***************************************************************************)
(* Bounds of the model.                                                    *)
(***************************************************************************)
\* number of batches the generator's random stream is followed for
MaxGen == 3
\* number of ticker firings that are followed
MaxTicks == 1
\* the same two for the runs whose stats stream is followed
StatsMaxGen == 2
StatsMaxTicks == 2
\* the largest entry size, standing for ^uint64(0)
SizeMax == 15
\* the same two for the runs whose stats consumer is slow: one tick more than
\* the stats channel buffers
DropMaxGen == 1
DropMaxTicks == 9
\* functions called on their own: the largest worker count, batch size and
\* report interval handed to NewRunner and generateBatch (the smallest is -1)
MaxArg == 2
\* the longest candidate generateBatch is asked for
GenMaxLen == 2
\* the longest symbol class and the largest number of classes given to Combine
MaxClassLen == 2
MaxClasses == 2
\* the largest number of entries of an archive a worker is built on
MaxEntries == 2
\* the longest batch handed to BatchVerify
MaxBatchLen == 3
\* a Vulkan worker's batchSize standing for DefaultGPUBatchSize in calls
\* whose batch is longer than the worker's buffers
GpuBatchSmall == 2

(***************************************************************************)
(* Program constants.                                                      *)
(***************************************************************************)
DefaultBatchSize == 1024
DefaultReportEvery == 2
StatsChCap == 8
ResultChCap == 1
JobsPerWorker == 2
DefaultGPUBatchSize == 4096
MaxPasswordLength == 256

(***************************************************************************)
(* Archives.  The archive codec (yeka/zip) is outside the repository; an   *)
(* archive is described by what the codec reports about it: whether it     *)
(* can be read at all, its entries, and the password of its entries.       *)
(***************************************************************************)
Entry(dir, enc, stored, size) ==
    [dir |-> dir, enc |-> enc, stored |-> stored, size |-> size]

ArchGood ==
    [nbytes |-> 1, readable |-> TRUE, password |-> <<"a">>,
     entries |-> <<Entry(FALSE, TRUE, TRUE, 10)>>]
ArchNoEncrypted ==
    [nbytes |-> 1, readable |-> TRUE, password |-> <<"a">>,
     entries |-> <<Entry(FALSE, FALSE, TRUE, 10)>>]
ArchNoEntries ==
    [nbytes |-> 1, readable |-> TRUE, password |-> <<"a">>, entries |-> <<>>]
ArchMalformed ==
    [nbytes |-> 1, readable |-> FALSE, password |-> <<"a">>, entries |-> <<>>]

RunnerArchives == {ArchGood, ArchNoEncrypted, ArchNoEntries, ArchMalformed}

\* an archive with two encrypted stored entries, the second the smaller
ArchTwo ==
    [nbytes |-> 1, readable |-> TRUE, password |-> <<"a">>,
     entries |-> <<Entry(FALSE, TRUE, TRUE, 10), Entry(FALSE, TRUE, TRUE, 5)>>]

\* a scan in which a later entry of equal size replaces the target
RECURSIVE SmallestFromLast(_, _, _, _)
SmallestFromLast(entries, i, target, targetSize) ==
    IF i > Len(entries) THEN target
    ELSE LET f == entries[i] IN
         IF f.dir THEN SmallestFromLast(entries, i + 1, target, targetSize)
         ELSE IF ~f.enc THEN SmallestFromLast(entries, i + 1, target, targetSize)
         ELSE IF f.size <= targetSize
              THEN SmallestFromLast(entries, i + 1, i - 1, f.size)
              ELSE SmallestFromLast(entries, i + 1, target, targetSize)

\* the loop of findSmallestEncryptedIndex over zr.File[i .. ], carrying
\* target and targetSize
RECURSIVE SmallestFrom(_, _, _, _)
SmallestFrom(entries, i, target, targetSize) ==
    IF i > Len(entries) THEN target
    ELSE LET f == entries[i] IN
         IF f.dir THEN SmallestFrom(entries, i + 1, target, targetSize)
         ELSE IF ~f.enc THEN SmallestFrom(entries, i + 1, target, targetSize)
         ELSE IF f.size < targetSize
              THEN SmallestFrom(entries, i + 1, i - 1, f.size)
              ELSE SmallestFrom(entries, i + 1, target, targetSize)

\* findSmallestEncryptedIndex: [err, target]
FindSmallestEncryptedIndex(zip) ==
    IF ~zip.readable THEN [err |-> TRUE, target |-> -1]
    ELSE IF Len(zip.entries) = 0 THEN [err |-> TRUE, target |-> -1]
    ELSE LET t == SmallestFrom(zip.entries, 1, -1, SizeMax) IN
         IF t = -1 THEN [err |-> TRUE, target |-> -1]
         ELSE [err |-> FALSE, target |-> t]

\* cpuVerifier.NewWorker: [err, target]
CpuNewWorker(zip) ==
    IF zip.nbytes = 0 THEN [err |-> TRUE, target |-> -1]
    ELSE FindSmallestEncryptedIndex(zip)

\* what parseZipHeaders decides for the archive as the codec describes it:
\* it fails unless some entry is encrypted and stored
VulkanParseErr(zip) ==
    \/ ~zip.readable
    \/ ~\E i \in 1..Len(zip.entries) : zip.entries[i].enc /\ zip.entries[i].stored

\* the loop of parseZipHeaders over the central directory entries i .. ,
\* carrying the best entry and bestSize: encrypted stored entries only
RECURSIVE BestFrom(_, _, _, _)
BestFrom(entries, i, best, bestSize) ==
    IF i > Len(entries) THEN best
    ELSE LET f == entries[i] IN
         IF f.enc /\ f.stored /\ f.size < bestSize
         THEN BestFrom(entries, i + 1, i - 1, f.size)
         ELSE BestFrom(entries, i + 1, best, bestSize)

\* the entry whose ZipCryptoInfo parseZipHeaders returns (-1: none)
VulkanTarget(zip) ==
    IF ~zip.readable THEN -1 ELSE BestFrom(zip.entries, 1, -1, SizeMax + 1)

\* vulkanVerifier.NewWorker: fails on a parse error or when a buffer, the
\* descriptor set or the command buffer cannot be created (resOk = FALSE)
VulkanNewWorker(zip, resOk) ==
    [err |-> VulkanParseErr(zip) \/ ~resOk]

\* cpuWorker.try
CpuTry(zip, target, pw) ==
    /\ zip.readable
    /\ target >= 0 /\ target < Len(zip.entries)
    /\ pw = zip.password

\* a scan that tries every candidate and then reports the first match
RECURSIVE CpuScanAll(_, _, _, _)
CpuScanAll(zip, target, b, i) ==
    IF i >= Len(b) THEN [match |-> -1, attempts |-> Len(b), tried |-> <<>>]
    ELSE LET r == CpuScanAll(zip, target, b, i + 1) IN
         IF CpuTry(zip, target, b[i + 1])
         THEN [match |-> i, attempts |-> i + 1, tried |-> <<i>> \o r.tried]
         ELSE [r EXCEPT !.tried = <<i>> \o r.tried]

\* the loop `for i, pw := range batch` of cpuWorker.BatchVerify from index
\* i on: the match index, the attempts, and the indices w.try was called on
RECURSIVE CpuScan(_, _, _, _)
CpuScan(zip, target, b, i) ==
    IF i >= Len(b) THEN [match |-> -1, attempts |-> Len(b), tried |-> <<>>]
    ELSE IF CpuTry(zip, target, b[i + 1])
         THEN [match |-> i, attempts |-> i + 1, tried |-> <<i>>]
         ELSE LET r == CpuScan(zip, target, b, i + 1) IN
              [r EXCEPT !.tried = <<i>> \o r.tried]

\* cpuWorker.BatchVerify with the calls of w.try it makes
CpuBatchVerifyTrace(zip, target, b) ==
    IF Len(b) = 0 THEN [match |-> -1, attempts |-> 0, tried |-> <<>>]
    ELSE CpuScan(zip, target, b, 0)

\* cpuWorker.BatchVerify: <<matchIdx, attempts>>
CpuBatchVerify(zip, target, b) ==
    LET r == CpuBatchVerifyTrace(zip, target, b) IN <<r.match, r.attempts>>

\* what can go wrong in one attempt, besides the password being wrong:
\* yzip.NewReader, f.Open, io.Copy or rc.Close returns an error
TryFaults == {"none", "reader", "open", "copy", "close"}

\* an attempt that looks at the copy error only
CpuTryIgnoringClose(zip, target, pw, fault) ==
    IF fault = "reader" \/ ~zip.readable THEN FALSE
    ELSE IF target < 0 \/ target >= Len(zip.entries) THEN FALSE
    ELSE IF fault = "open" \/ pw # zip.password THEN FALSE
    ELSE fault # "copy"

\* cpuWorker.try with the error each library call returns
CpuTryFaulty(zip, target, pw, fault) ==
    IF fault = "reader" \/ ~zip.readable THEN FALSE
    ELSE IF target < 0 \/ target >= Len(zip.entries) THEN FALSE
    ELSE IF fault = "open" \/ pw # zip.password THEN FALSE
    ELSE LET copyErr == fault = "copy"
             closeErr == fault = "close"
         IN  ~copyErr /\ ~closeErr

\* the loop of cpuWorker.BatchVerify when attempt k meets faults[k]
RECURSIVE CpuScanFaulty(_, _, _, _, _)
CpuScanFaulty(zip, target, b, faults, i) ==
    IF i >= Len(b) THEN [match |-> -1, attempts |-> Len(b), tried |-> <<>>]
    ELSE IF CpuTryFaulty(zip, target, b[i + 1], faults[i + 1])
         THEN [match |-> i, attempts |-> i + 1, tried |-> <<i>>]
         ELSE LET r == CpuScanFaulty(zip, target, b, faults, i + 1) IN
              [r EXCEPT !.tried = <<i>> \o r.tried]

\* cpuWorker.BatchVerify when attempt k meets faults[k]
CpuBatchVerifyFaulty(zip, target, b, faults) ==
    IF Len(b) = 0 THEN [match |-> -1, attempts |-> 0, tried |-> <<>>]
    ELSE CpuScanFaulty(zip, target, b, faults, 0)

\* the result slot the compute shader writes for one candidate
ShaderSlot(zip, pw) == IF pw = zip.password THEN 1 ELSE 0

\* a download that reports the end of the batch when no slot is set
DownloadResultsEndIndex(zip, b, batchLen, mapOk) ==
    IF ~mapOk THEN -1
    ELSE LET hits == {i \in 0..(batchLen - 1) : ShaderSlot(zip, b[i + 1]) # 0} IN
         IF hits = {} THEN batchLen
         ELSE CHOOSE h \in hits : \A g \in hits : h <= g

\* vulkanWorker.downloadResults
DownloadResults(zip, b, batchLen, mapOk) ==
    IF ~mapOk THEN -1
    ELSE LET hits == {i \in 0..(batchLen - 1) : ShaderSlot(zip, b[i + 1]) # 0} IN
         IF hits = {} THEN -1
         ELSE CHOOSE h \in hits : \A g \in hits : h <= g

\* the loop `for i, result := range results` from index i on
RECURSIVE FirstNonZero(_, _)
FirstNonZero(results, i) ==
    IF i >= Len(results) THEN -1
    ELSE IF results[i + 1] # 0 THEN i
    ELSE FirstNonZero(results, i + 1)

\* a download that scans every slot of the results buffer
ScanAllSlots(slots, batchLen, mapOk) ==
    IF ~mapOk THEN -1 ELSE FirstNonZero(slots, 0)

\* vulkanWorker.downloadResults on the contents of the mapped results
\* buffer: results := mapped[:batchSize], then the first nonzero slot
ScanSlots(slots, batchLen, mapOk) ==
    IF ~mapOk THEN -1 ELSE FirstNonZero(SubSeq(slots, 1, batchLen), 0)

\* wordsNeeded := (len(passwordBytes) + 3) / 4
WordsNeeded(l) == (l + 3) \div 4

\* the loops of uploadPasswordData that pack the candidates of byte lengths
\* lens[i + 1 ..] into passwordData from dataOffset on; writes are the word
\* indices written so far, and an index outside the array of size words
\* ends the upload with a panic
RECURSIVE PackWords(_, _, _, _, _)
PackWords(lens, i, dataOffset, size, writes) ==
    IF i >= Len(lens) THEN [kind |-> "ok", dataWrites |-> writes]
    ELSE LET n == WordsNeeded(lens[i + 1]) IN
         IF dataOffset + n > size
         THEN [kind |-> "panic",
               dataWrites |-> writes \o [j \in 1..(size - dataOffset) |->
                                             dataOffset + j - 1],
               badIndex |-> size]
         ELSE PackWords(lens, i + 1, dataOffset + n, size,
                        writes \o [j \in 1..n |-> dataOffset + j - 1])

\* vulkanWorker.uploadPasswordData on a batch whose candidates have the byte
\* lengths lens: the slots of lengths written, then the words of
\* passwordData written
UploadPasswordData(batchSize, lens) ==
    LET used == IF Len(lens) > batchSize THEN batchSize ELSE Len(lens)
        r == PackWords(SubSeq(lens, 1, used), 0, 0,
                       (batchSize * MaxPasswordLength) \div 4, <<>>)
    IN  [kind |-> r.kind,
         lengthWrites |-> [i \in 1..used |-> i - 1],
         lengths |-> [i \in 1..batchSize |-> IF i <= used THEN lens[i] ELSE 0],
         dataWrites |-> r.dataWrites]

\* a BatchVerify that uploads and checks the whole batch
VulkanBatchVerifyWhole(zip, batchSize, batch, uploadOk, dispatchOk, mapOk) ==
    IF Len(batch) = 0 THEN <<-1, 0>>
    ELSE IF ~uploadOk THEN <<-1, Len(batch)>>
    ELSE IF ~dispatchOk THEN <<-1, Len(batch)>>
    ELSE <<DownloadResults(zip, batch, Len(batch), mapOk), Len(batch)>>

\* vulkanWorker.BatchVerify: <<matchIdx, attempts>>
VulkanBatchVerify(zip, batchSize, batch, uploadOk, dispatchOk, mapOk) ==
    IF Len(batch) = 0 THEN <<-1, 0>>
    ELSE LET batchLen == IF Len(batch) > batchSize THEN batchSize ELSE Len(batch)
             b == SubSeq(batch, 1, batchLen)
         IN  IF ~uploadOk THEN <<-1, Len(b)>>
             ELSE IF ~dispatchOk THEN <<-1, Len(b)>>
             ELSE <<DownloadResults(zip, b, batchLen, mapOk), Len(b)>>

(***************************************************************************)
(* Worker.Close.  A worker holds one handle per backend-owned resource;    *)
(* released counts the vk.Destroy / vk.Free calls made on each.            *)
(***************************************************************************)
NullHandle == 0
LiveHandle == 1
CloseMaxCalls == 2

VulkanResources ==
    {"passwordLengthsBuffer", "passwordLengthsMemory", "passwordDataBuffer",
     "passwordDataMemory", "zipHeaderBuffer", "zipHeaderMemory",
     "resultsBuffer", "resultsMemory", "descriptorSet", "commandBuffer"}

\* the worker vulkanVerifier.NewWorker returns: every resource created
VulkanWorker ==
    [backend |-> "vulkan",
     handles |-> [r \in VulkanResources |-> LiveHandle],
     released |-> [r \in VulkanResources |-> 0]]

\* the worker cpuVerifier.NewWorker returns: it owns no such resource
CpuWorker ==
    [backend |-> "cpu",
     handles |-> [r \in VulkanResources |-> NullHandle],
     released |-> [r \in VulkanResources |-> 0]]

\* vulkanWorker.cleanup: each resource whose handle is not the null handle
\* is destroyed or freed; no handle is assigned afterwards
VulkanCleanup(w) ==
    [w EXCEPT !.released =
        [r \in VulkanResources |->
            IF w.handles[r] # NullHandle THEN w.released[r] + 1
            ELSE w.released[r]]]

\* Worker.Close: vulkanWorker.Close calls cleanup, cpuWorker.Close is empty
Close(w) == IF w.backend = "vulkan" THEN VulkanCleanup(w) ELSE w

\* n calls of Close on the same worker
RECURSIVE CloseTimes(_, _)
CloseTimes(w, n) == IF n <= 0 THEN w ELSE Close(CloseTimes(w, n - 1))

\* a cleanup that frees the descriptor set and the command buffer first
WorkerCleanupReversed ==
    <<"commandBuffer", "descriptorSet", "passwordLengthsBuffer",
      "passwordLengthsMemory", "passwordDataBuffer", "passwordDataMemory",
      "zipHeaderBuffer", "zipHeaderMemory", "resultsBuffer", "resultsMemory">>

\* the order in which vulkanWorker.cleanup goes through the resources
WorkerCleanupOrder ==
    <<"passwordLengthsBuffer", "passwordLengthsMemory", "passwordDataBuffer",
      "passwordDataMemory", "zipHeaderBuffer", "zipHeaderMemory",
      "resultsBuffer", "resultsMemory", "descriptorSet", "commandBuffer">>

\* the order in which vulkanVerifier.cleanup goes through its objects
VerifierCleanupOrder ==
    <<"descriptorPool", "computePipeline", "pipelineLayout",
      "descriptorSetLayout", "commandPool", "device", "instance">>

\* the release calls one cleanup makes, in order: the objects of order
\* whose handle is in live
CleanupLog(order, live) == SelectSeq(order, LAMBDA r : r \in live)

\* the stages of NewVulkan and NewWorker that can fail
VerifierStages ==
    <<"createInstance", "selectPhysicalDevice", "createDevice",
      "createCommandPool", "createComputePipeline", "createDescriptorPool">>
WorkerStages == <<"createBuffers", "createDescriptorSet", "createCommandBuffer">>

\* the verifier objects that exist when NewVulkan fails at stage
VerifierLive(stage) ==
    CASE stage = "selectPhysicalDevice" -> {"instance"}
      [] stage = "createDevice" -> {"instance"}
      [] stage = "createCommandPool" -> {"instance", "device"}
      [] stage = "createComputePipeline" -> {"instance", "device", "commandPool"}
      [] stage = "createDescriptorPool" ->
             {"instance", "device", "commandPool", "descriptorSetLayout",
              "pipelineLayout", "computePipeline"}
      [] OTHER -> {}

\* the worker resources that exist when NewWorker fails at stage, or all of
\* them when it does not fail
WorkerLive(stage) ==
    CASE stage = "createDescriptorSet" -> VulkanResources \ {"descriptorSet", "commandBuffer"}
      [] stage = "createCommandBuffer" -> VulkanResources \ {"commandBuffer"}
      [] OTHER -> VulkanResources

\* n calls of Close, each going through the handles, none of which is reset
RECURSIVE CloseLog(_)
CloseLog(n) ==
    IF n <= 0 THEN <<>>
    ELSE CloseLog(n - 1) \o CleanupLog(WorkerCleanupOrder, WorkerLive("none"))

\* the release calls of one life of the backend: NewVulkan (failing at
\* vfail, or "none"), NewWorker (failing at wfail, or "none"), then closes
\* calls of Close on the worker
ReleaseLog(vfail, wfail, closes) ==
    IF vfail = "createInstance" THEN <<>>
    ELSE IF vfail # "none"
    THEN CleanupLog(VerifierCleanupOrder, VerifierLive(vfail))
    ELSE IF wfail = "createBuffers" THEN <<>>
    ELSE IF wfail # "none"
    THEN CleanupLog(WorkerCleanupOrder, WorkerLive(wfail))
    ELSE CloseLog(closes)

(***************************************************************************)
(* Candidate generation.                                                   *)
(***************************************************************************)
\* all strings over the alphabet with exactly l symbols
RECURSIVE StringsOfLen(_, _)
StringsOfLen(alphabet, l) ==
    IF l <= 0 THEN {<<>>}
    ELSE {<<alphabet[k]>> \o s : k \in 1..Len(alphabet),
                                 s \in StringsOfLen(alphabet, l - 1)}

\* lengths drawn with rng.Intn(maxLen-minLen+2)
CandidateLensPlusOne(minLen, maxLen) ==
    IF maxLen > minLen THEN minLen..(maxLen + 1) ELSE {minLen}

\* the lengths l := minLen; if maxLen > minLen { l += rng.Intn(maxLen-minLen+1) }
CandidateLens(minLen, maxLen) ==
    IF maxLen > minLen THEN minLen..maxLen ELSE {minLen}

\* a generateBatch that returns no candidates for an empty alphabet
GenerateBatchNoneForEmpty(alphabet, minLen, maxLen, batchSize) ==
    LET bs == IF batchSize <= 0 THEN 1 ELSE batchSize IN
    IF Len(alphabet) = 0 THEN {<<>>}
    ELSE [1..bs -> UNION {StringsOfLen(alphabet, l) :
                              l \in CandidateLens(minLen, maxLen)}]

\* generateBatch: the set of batches the random stream can produce
GenerateBatch(alphabet, minLen, maxLen, batchSize) ==
    LET bs == IF batchSize <= 0 THEN 1 ELSE batchSize IN
    IF Len(alphabet) = 0 THEN {[i \in 1..bs |-> <<>>]}
    ELSE [1..bs -> UNION {StringsOfLen(alphabet, l) :
                              l \in CandidateLens(minLen, maxLen)}]

(***************************************************************************)
(* charset.Combine.                                                        *)
(***************************************************************************)
\* an inner loop that appends every rune
RECURSIVE CombineClassNoSeen(_, _, _)
CombineClassNoSeen(seen, out, s) ==
    IF Len(s) = 0 THEN [seen |-> seen, out |-> out]
    ELSE CombineClassNoSeen(seen \cup {Head(s)}, Append(out, Head(s)), Tail(s))

\* the inner loop `for _, r := range s` of Combine, carrying seen and out
RECURSIVE CombineClass(_, _, _)
CombineClass(seen, out, s) ==
    IF Len(s) = 0 THEN [seen |-> seen, out |-> out]
    ELSE LET r == Head(s) IN
         IF r \notin seen
         THEN CombineClass(seen \cup {r}, Append(out, r), Tail(s))
         ELSE CombineClass(seen, out, Tail(s))

\* the outer loop `for _, s := range sets` of Combine
RECURSIVE CombineSets(_, _, _)
CombineSets(seen, out, sets) ==
    IF Len(sets) = 0 THEN out
    ELSE LET c == CombineClass(seen, out, Head(sets)) IN
         CombineSets(c.seen, c.out, Tail(sets))

\* charset.Combine(sets...)
Combine(sets) == CombineSets({}, <<>>, sets)

(***************************************************************************)
(* Configuration and construction.                                         *)
(***************************************************************************)
\* a normalisation that turns a non-positive batch size into 1
NewRunnerBatchOne(c) ==
    [c EXCEPT !.Workers = IF c.Workers <= 0 THEN 1 ELSE c.Workers,
              !.BatchSize = IF c.BatchSize <= 0 THEN 1 ELSE c.BatchSize,
              !.ReportEvery = IF c.ReportEvery <= 0 THEN DefaultReportEvery
                              ELSE c.ReportEvery]

\* NewRunner's normalisation of the configuration
NewRunner(c) ==
    [c EXCEPT !.Workers = IF c.Workers <= 0 THEN 1 ELSE c.Workers,
              !.BatchSize = IF c.BatchSize <= 0 THEN DefaultBatchSize
                            ELSE c.BatchSize,
              !.ReportEvery = IF c.ReportEvery <= 0 THEN DefaultReportEvery
                              ELSE c.ReportEvery]

\* a configuration as main builds it: candidates of one symbol over {a, b}
Config(zip, workers, batchSize, hasCallback, backend) ==
    [ZipBytes |-> zip, Alphabet |-> <<"a", "b">>, MinLen |-> 1, MaxLen |-> 1,
     Workers |-> workers, BatchSize |-> batchSize, ReportEvery |-> 0,
     HasCallback |-> hasCallback, Backend |-> backend]

\* the configurations runs are started with: two CPU workers racing on
\* batches of one candidate, one CPU worker (asked for as 0 or 1) on batches
\* of two, one worker with the Vulkan backend asked for, and the archives no
\* worker can be built for
RawConfigs ==
    {Config(ArchGood, 2, 1, TRUE, "cpu")}
    \cup {Config(ArchGood, w, 2, TRUE, "cpu") : w \in {0, 1}}
    \cup {Config(ArchGood, 1, 1, FALSE, "vulkan")}
    \cup {Config(zip, 1, 1, FALSE, b) :
            zip \in RunnerArchives \ {ArchGood}, b \in {"cpu", "vulkan"}}

(***************************************************************************)
(* State.                                                                  *)
(***************************************************************************)
VARIABLES
    cfg,          \* r.cfg after NewRunner
    started,      \* Start has been called
    startErr,     \* the error Start returned (FALSE: nil)
    v,            \* the verifier backend Start selected
    verr,         \* NewVulkan was called and returned an error
    parentDone,   \* the parent context has been cancelled
    cancelCalled, \* r.cancel() has been called
    jobs,         \* the jobs channel's buffer
    jobsClosed,
    statsCh,      \* r.statsCh's buffer
    statsClosed,
    resultCh,     \* r.resultCh's buffer
    resultClosed,
    onceResult,   \* r.onceResult has run
    result,       \* r.result
    counters,     \* r.counters
    wpc,          \* each worker goroutine's position
    wtarget,      \* each cpuWorker's targetIndex
    werr,         \* v.NewWorker returned an error to the worker
    wb,           \* the batch each worker received
    wmatch,       \* the matchIdx each worker's BatchVerify returned
    gpc,          \* the generator goroutine's position
    gb,           \* the batch the generator is sending
    genCount,     \* batches generated so far
    spc,          \* the sampler goroutine's position
    sper,         \* the sampler's per slice
    stotal,       \* the sampler's total
    si,           \* the sampler's loop index
    ticks,        \* ticker firings so far
    cpc,          \* the completion goroutine's position
    ui,           \* the TUI model
    delivered,    \* the values the TUI received from the result channel
    panicked,     \* a goroutine panicked (send on a closed channel)
    pubLog,       \* the arguments of the publishResult calls, in order
    cbLog,        \* the arguments of the FoundCallback calls, in order
    call,         \* a function called on its own: its name and arguments
    ret           \* the value that call returned

chanVars == <<jobs, jobsClosed, statsCh, statsClosed, resultCh, resultClosed>>
onceVars == <<onceResult, result, pubLog>>
workerVars == <<wpc, wtarget, werr, wb, wmatch, counters>>
genVars == <<gpc, gb, genCount>>
samplerVars == <<spc, sper, stotal, si, ticks>>
uiVars == <<ui, delivered>>
startVars == <<cfg, started, startErr, v, verr>>
ctxVars == <<parentDone, cancelCalled>>
callVars == <<call, ret>>

vars == <<cfg, started, startErr, v, verr, parentDone, cancelCalled, jobs, jobsClosed,
          statsCh, statsClosed, resultCh, resultClosed, onceResult, result,
          counters, wpc, wtarget, werr, wb, wmatch, gpc, gb, genCount, spc,
          sper,
          stotal, si, ticks, cpc, ui, delivered, panicked, pubLog, cbLog,
          call, ret>>

WorkerIds == 0..(cfg.Workers - 1)

NoResult == [Found |-> FALSE, Password |-> <<>>]

\* no function is called on its own / the call has not returned
NoCall == [fn |-> "none"]
NoReturn == [done |-> FALSE]

\* ctx.Done() is closed / ctx.Err() != nil
CtxDone == parentDone \/ cancelCalled

\* NewModel
NewModel(workers) ==
    [lastCounts |-> [i \in 0..(workers - 1) |-> 0], total |-> 0,
     found |-> FALSE, password |-> <<>>,
     statsOpen |-> TRUE, resultOpen |-> TRUE,
     listenStats |-> TRUE, listenResult |-> TRUE, quit |-> FALSE]

RunnerInit(configs) ==
    /\ cfg \in {NewRunner(c) : c \in configs}
    /\ started = FALSE
    /\ startErr = FALSE
    /\ v = "none"
    /\ verr = FALSE
    /\ parentDone = FALSE
    /\ cancelCalled = FALSE
    /\ jobs = <<>>
    /\ jobsClosed = FALSE
    /\ statsCh = <<>>
    /\ statsClosed = FALSE
    /\ resultCh = <<>>
    /\ resultClosed = FALSE
    /\ onceResult = FALSE
    /\ result = NoResult
    /\ counters = [i \in WorkerIds |-> 0]
    /\ wpc = [i \in WorkerIds |-> "idle"]
    /\ wtarget = [i \in WorkerIds |-> -1]
    /\ werr = [i \in WorkerIds |-> FALSE]
    /\ wb = [i \in WorkerIds |-> <<>>]
    /\ wmatch = [i \in WorkerIds |-> -1]
    /\ gpc = "idle"
    /\ gb = <<>>
    /\ genCount = 0
    /\ spc = "idle"
    /\ sper = <<>>
    /\ stotal = 0
    /\ si = 0
    /\ ticks = 0
    /\ cpc = "idle"
    /\ ui = NewModel(cfg.Workers)
    /\ delivered = <<>>
    /\ panicked = FALSE
    /\ pubLog = <<>>
    /\ cbLog = <<>>

InitWith(configs) ==
    /\ RunnerInit(configs)
    /\ call = NoCall
    /\ ret = NoReturn

Init == InitWith(RawConfigs)

(***************************************************************************)
(* Runner.Start: backend selection and the goroutines it spawns.           *)
(***************************************************************************)
\* a switch that keeps the failed Vulkan verifier
SelectBackendNoFallback(backend, vulkanOk) ==
    IF backend = "vulkan" THEN "vulkan" ELSE "cpu"

\* the switch on r.cfg.Backend; vulkanOk: NewVulkan returned no error
SelectBackend(backend, vulkanOk) ==
    IF backend = "vulkan"
    THEN IF ~vulkanOk THEN "cpu" ELSE "vulkan"
    ELSE "cpu"

\* the error Start returns (FALSE: nil)
StartReturn(backend, vulkanOk, zip) == FALSE

Start ==
    /\ ~started
    /\ started' = TRUE
    /\ \E vulkanOk \in BOOLEAN :
         /\ verr' = (cfg.Backend = "vulkan" /\ ~vulkanOk)
         /\ v' = SelectBackend(cfg.Backend, vulkanOk)
         /\ startErr' = StartReturn(cfg.Backend, vulkanOk, cfg.ZipBytes)
    /\ wpc' = [i \in WorkerIds |-> "new"]
    /\ gpc' = "check"
    /\ spc' = "select"
    /\ cpc' = "wait"
    /\ UNCHANGED <<callVars, cfg, ctxVars, chanVars, onceVars, counters, wtarget, werr, wb,
                   wmatch, gb, genCount, sper, stotal, si, ticks, uiVars,
                   panicked, cbLog>>

(***************************************************************************)
(* publishResult.                                                          *)
(***************************************************************************)
\* publishResult without the sync.Once guard
PublishResultNoOnce(res) ==
    /\ pubLog' = Append(pubLog, res)
    /\ onceResult' = TRUE
    /\ result' = res
    /\ resultCh' = IF Len(resultCh) < ResultChCap THEN Append(resultCh, res)
                   ELSE resultCh
    /\ UNCHANGED panicked

PublishResult(res) ==
    /\ pubLog' = Append(pubLog, res)
    /\ IF ~onceResult
       THEN /\ onceResult' = TRUE
            /\ result' = res
            /\ IF resultClosed
               THEN panicked' = TRUE /\ UNCHANGED resultCh
               ELSE /\ resultCh' = IF Len(resultCh) < ResultChCap
                                   THEN Append(resultCh, res)
                                   ELSE resultCh
                    /\ UNCHANGED panicked
       ELSE UNCHANGED <<onceResult, result, resultCh, panicked>>

(***************************************************************************)
(* Workers.                                                                *)
(***************************************************************************)
\* a construction that picks any encrypted regular entry, as an iteration
\* in no fixed order would
WorkerNewAnyEntry(id) ==
    /\ wpc[id] = "new"
    /\ LET zip == cfg.ZipBytes
           ok == {i \in 1..Len(zip.entries) :
                     ~zip.entries[i].dir /\ zip.entries[i].enc}
       IN  IF ~zip.readable \/ ok = {}
           THEN /\ wpc' = [wpc EXCEPT ![id] = "done"]
                /\ werr' = [werr EXCEPT ![id] = TRUE]
                /\ UNCHANGED wtarget
           ELSE /\ wpc' = [wpc EXCEPT ![id] = "select"]
                /\ \E i \in ok : wtarget' = [wtarget EXCEPT ![id] = i - 1]
                /\ UNCHANGED werr
    /\ UNCHANGED <<callVars, startVars, ctxVars, chanVars, onceVars, counters,
                   wb, wmatch, genVars, samplerVars, cpc, uiVars, panicked,
                   cbLog>>

\* v.NewWorker(r.cfg.ZipBytes)
WorkerNew(id) ==
    /\ wpc[id] = "new"
    /\ \E resOk \in BOOLEAN :
         LET r == IF v = "vulkan"
                  THEN [err |-> VulkanNewWorker(cfg.ZipBytes, resOk).err,
                        target |-> VulkanTarget(cfg.ZipBytes)]
                  ELSE CpuNewWorker(cfg.ZipBytes)
         IN  IF r.err
             THEN /\ wpc' = [wpc EXCEPT ![id] = "done"]
                  /\ werr' = [werr EXCEPT ![id] = TRUE]
                  /\ UNCHANGED wtarget
             ELSE /\ wpc' = [wpc EXCEPT ![id] = "select"]
                  /\ wtarget' = [wtarget EXCEPT ![id] = r.target]
                  /\ UNCHANGED werr
    /\ UNCHANGED <<callVars, startVars, ctxVars, chanVars, onceVars, counters, wb, wmatch,
                   genVars, samplerVars, cpc, uiVars, panicked, cbLog>>

\* select: case <-ctx.Done()
WorkerCtxDone(id) ==
    /\ wpc[id] = "select"
    /\ CtxDone
    /\ wpc' = [wpc EXCEPT ![id] = "done"]
    /\ UNCHANGED <<callVars, startVars, ctxVars, chanVars, onceVars, counters, wtarget, werr,
                   wb, wmatch, genVars, samplerVars, cpc, uiVars, panicked,
                   cbLog>>

\* select: case b, ok := <-jobs
WorkerRecv(id) ==
    /\ wpc[id] = "select"
    /\ Len(jobs) > 0 \/ jobsClosed
    /\ IF Len(jobs) > 0
       THEN /\ wb' = [wb EXCEPT ![id] = Head(jobs)]
            /\ jobs' = Tail(jobs)
            /\ wpc' = [wpc EXCEPT ![id] = "recvd"]
       ELSE /\ wpc' = [wpc EXCEPT ![id] = "done"]
            /\ UNCHANGED <<wb, jobs>>
    /\ UNCHANGED <<callVars, startVars, ctxVars, jobsClosed, statsCh, statsClosed,
                   resultCh, resultClosed, onceVars, counters, wtarget, werr, wmatch,
                   genVars, samplerVars, cpc, uiVars, panicked, cbLog>>

\* if ctx.Err() != nil { return }, else BatchVerify is entered
WorkerCheckErr(id) ==
    /\ wpc[id] = "recvd"
    /\ IF CtxDone
       THEN /\ wpc' = [wpc EXCEPT ![id] = "done"]
            /\ wb' = [wb EXCEPT ![id] = <<>>]
       ELSE /\ wpc' = [wpc EXCEPT ![id] = "verify"]
            /\ UNCHANGED wb
    /\ UNCHANGED <<callVars, startVars, ctxVars, chanVars, onceVars, counters, wtarget, werr,
                   wmatch, genVars, samplerVars, cpc, uiVars, panicked, cbLog>>

\* the value of vw.BatchVerify(b) for the worker's backend
BatchVerify(backend, zip, target, b, uploadOk, dispatchOk, mapOk) ==
    IF backend = "vulkan"
    THEN VulkanBatchVerify(zip, DefaultGPUBatchSize, b, uploadOk, dispatchOk, mapOk)
    ELSE CpuBatchVerify(zip, target, b)

\* a store in place of the add
AddCounterStore(cs, id, attempts) == [cs EXCEPT ![id] = attempts]

\* an add that is skipped once the context is cancelled
AddCounterUnlessCancelled(cs, id, attempts) ==
    IF parentDone \/ cancelCalled THEN cs
    ELSE [cs EXCEPT ![id] = cs[id] + attempts]

\* atomic.AddUint64(&r.counters[id], uint64(attempts))
AddCounter(cs, id, attempts) == [cs EXCEPT ![id] = cs[id] + attempts]

\* if matchIdx >= 0 && matchIdx < len(b)
MatchInBatch(matchIdx, b) == matchIdx >= 0 /\ matchIdx < Len(b)

\* BatchVerify returns; the attempts are added; the match index is tested
WorkerVerified(id) ==
    /\ wpc[id] = "verify"
    /\ \E uploadOk \in BOOLEAN, dispatchOk \in BOOLEAN, mapOk \in BOOLEAN :
         LET r == BatchVerify(v, cfg.ZipBytes, wtarget[id], wb[id],
                              uploadOk, dispatchOk, mapOk)
         IN  /\ counters' = AddCounter(counters, id, r[2])
             /\ IF MatchInBatch(r[1], wb[id])
                THEN /\ wmatch' = [wmatch EXCEPT ![id] = r[1]]
                     /\ wpc' = [wpc EXCEPT ![id] = "publish"]
                     /\ UNCHANGED wb
                ELSE /\ wpc' = [wpc EXCEPT ![id] = "select"]
                     /\ wb' = [wb EXCEPT ![id] = <<>>]
                     /\ UNCHANGED wmatch
    /\ UNCHANGED <<callVars, startVars, ctxVars, chanVars, onceVars, wtarget, werr, genVars,
                   samplerVars, cpc, uiVars, panicked, cbLog>>

\* pw := b[0]
MatchedPasswordFirst(b, matchIdx) == b[1]

\* pw := b[matchIdx]
MatchedPassword(b, matchIdx) == b[matchIdx + 1]

\* r.publishResult(Result{Found: true, Password: pw})
WorkerPublish(id) ==
    /\ wpc[id] = "publish"
    /\ PublishResult([Found |-> TRUE,
                      Password |-> MatchedPassword(wb[id], wmatch[id])])
    /\ wpc' = [wpc EXCEPT ![id] = "callback"]
    /\ UNCHANGED <<callVars, startVars, ctxVars, jobs, jobsClosed, statsCh, statsClosed,
                   resultClosed, counters, wtarget, werr, wb, wmatch, genVars,
                   samplerVars, cpc, uiVars, cbLog>>

\* if r.cfg.FoundCallback != nil { r.cfg.FoundCallback(pw) }; the callback
\* main installs cancels the parent context
WorkerCallback(id) ==
    /\ wpc[id] = "callback"
    /\ IF cfg.HasCallback
       THEN /\ cbLog' = Append(cbLog, MatchedPassword(wb[id], wmatch[id]))
            /\ parentDone' = TRUE
       ELSE UNCHANGED <<cbLog, parentDone>>
    /\ wpc' = [wpc EXCEPT ![id] = "cancel"]
    /\ UNCHANGED <<callVars, startVars, cancelCalled, chanVars, onceVars, counters,
                   wtarget, werr, wb, wmatch, genVars, samplerVars, cpc, uiVars,
                   panicked>>

\* if r.cancel != nil { r.cancel() }; return
WorkerCancel(id) ==
    /\ wpc[id] = "cancel"
    /\ cancelCalled' = TRUE
    /\ wpc' = [wpc EXCEPT ![id] = "done"]
    /\ UNCHANGED <<callVars, startVars, parentDone, chanVars, onceVars, counters, wtarget, werr,
                   wb, wmatch, genVars, samplerVars, cpc, uiVars, panicked,
                   cbLog>>

(***************************************************************************)
(* Generator.                                                              *)
(***************************************************************************)
\* jobs := make(chan batch, r.cfg.Workers*2)
JobsCap(workers) == workers * JobsPerWorker

\* a send that never waits for room in the queue
CanSendJobUnbounded(q, workers) == TRUE

\* the send case of the generator's select is ready
CanSendJob(q, workers) == Len(q) < JobsCap(workers)

\* if ctx.Err() != nil { return }; b := generateBatch(...)
GenCheck(maxGen) ==
    /\ gpc = "check"
    /\ CtxDone \/ genCount < maxGen
    /\ IF CtxDone
       THEN gpc' = "done" /\ UNCHANGED <<gb, genCount>>
       ELSE /\ gb' \in GenerateBatch(cfg.Alphabet, cfg.MinLen, cfg.MaxLen,
                                     cfg.BatchSize)
            /\ genCount' = genCount + 1
            /\ gpc' = "send"
    /\ UNCHANGED <<callVars, startVars, ctxVars, chanVars, onceVars, workerVars,
                   samplerVars, cpc, uiVars, panicked, cbLog>>

\* select: case jobs <- b
GenSend ==
    /\ gpc = "send"
    /\ jobsClosed \/ CanSendJob(jobs, cfg.Workers)
    /\ IF jobsClosed
       THEN panicked' = TRUE /\ UNCHANGED jobs
       ELSE jobs' = Append(jobs, gb) /\ UNCHANGED panicked
    /\ gb' = <<>>
    /\ gpc' = "check"
    /\ UNCHANGED genCount
    /\ UNCHANGED <<callVars, startVars, ctxVars, jobsClosed, statsCh, statsClosed,
                   resultCh, resultClosed, onceVars, workerVars,
                   samplerVars, cpc, uiVars, cbLog>>

\* a generator whose select has no ctx.Done() case
GenCtxDoneMissing ==
    /\ FALSE
    /\ UNCHANGED vars

\* select: case <-ctx.Done()
GenCtxDone ==
    /\ gpc = "send"
    /\ CtxDone
    /\ gb' = <<>>
    /\ gpc' = "done"
    /\ UNCHANGED genCount
    /\ UNCHANGED <<callVars, startVars, ctxVars, chanVars, onceVars, workerVars,
                   samplerVars, cpc, uiVars, panicked, cbLog>>

(***************************************************************************)
(* Stats publisher.                                                        *)
(***************************************************************************)
\* select: case <-ctx.Done()
SamplerCtxDone ==
    /\ spc = "select"
    /\ CtxDone
    /\ spc' = "done"
    /\ UNCHANGED <<callVars, startVars, ctxVars, chanVars, onceVars, workerVars, genVars,
                   sper, stotal, si, ticks, cpc, uiVars, panicked, cbLog>>

\* select: case now := <-t.C; per := make([]uint64, len(r.counters))
SamplerTick(maxTicks) ==
    /\ spc = "select"
    /\ ticks < maxTicks
    /\ ticks' = ticks + 1
    /\ sper' = [i \in WorkerIds |-> 0]
    /\ stotal' = 0
    /\ si' = 0
    /\ spc' = "read"
    /\ UNCHANGED <<callVars, startVars, ctxVars, chanVars, onceVars, workerVars, genVars,
                   cpc, uiVars, panicked, cbLog>>

\* one iteration of: v := atomic.LoadUint64(&r.counters[i]); per[i] = v; total += v
SamplerRead ==
    /\ spc = "read"
    /\ sper' = [sper EXCEPT ![si] = counters[si]]
    /\ stotal' = stotal + counters[si]
    /\ si' = si + 1
    /\ spc' = IF si + 1 < cfg.Workers THEN "read" ELSE "send"
    /\ UNCHANGED <<callVars, startVars, ctxVars, chanVars, onceVars, workerVars, genVars,
                   ticks, cpc, uiVars, panicked, cbLog>>

\* the send case of the sampler's inner select is ready
CanSendStats(q) == Len(q) < StatsChCap

\* a send that waits for room in the channel
SamplerSendBlocking ==
    /\ spc = "send"
    /\ statsClosed \/ CanSendStats(statsCh)
    /\ LET s == [PerThread |-> sper, Total |-> stotal, Timestamp |-> ticks] IN
       IF statsClosed
       THEN panicked' = TRUE /\ UNCHANGED statsCh
       ELSE statsCh' = Append(statsCh, s) /\ UNCHANGED panicked
    /\ sper' = <<>>
    /\ stotal' = 0
    /\ si' = 0
    /\ spc' = "select"
    /\ UNCHANGED <<callVars, startVars, ctxVars, jobs, jobsClosed, statsClosed,
                   resultCh, resultClosed, onceVars, workerVars, genVars, ticks,
                   cpc, uiVars, cbLog>>

\* a send that makes room by discarding the oldest buffered snapshot
SamplerSendLatestWins ==
    /\ spc = "send"
    /\ LET s == [PerThread |-> sper, Total |-> stotal, Timestamp |-> ticks] IN
       IF statsClosed
       THEN panicked' = TRUE /\ UNCHANGED statsCh
       ELSE /\ statsCh' = IF CanSendStats(statsCh) THEN Append(statsCh, s)
                          ELSE Append(Tail(statsCh), s)
            /\ UNCHANGED panicked
    /\ sper' = <<>>
    /\ stotal' = 0
    /\ si' = 0
    /\ spc' = "select"
    /\ UNCHANGED <<callVars, startVars, ctxVars, jobs, jobsClosed, statsClosed,
                   resultCh, resultClosed, onceVars, workerVars, genVars, ticks,
                   cpc, uiVars, cbLog>>

\* s := Stats{...}; select { case r.statsCh <- s: default: }
SamplerSend ==
    /\ spc = "send"
    /\ LET s == [PerThread |-> sper, Total |-> stotal, Timestamp |-> ticks] IN
       IF statsClosed
       THEN panicked' = TRUE /\ UNCHANGED statsCh
       ELSE /\ statsCh' = IF CanSendStats(statsCh) THEN Append(statsCh, s)
                          ELSE statsCh
            /\ UNCHANGED panicked
    /\ sper' = <<>>
    /\ stotal' = 0
    /\ si' = 0
    /\ spc' = "select"
    /\ UNCHANGED <<callVars, startVars, ctxVars, jobs, jobsClosed, statsClosed, resultCh,
                   resultClosed, onceVars, workerVars, genVars, ticks, cpc,
                   uiVars, cbLog>>

(***************************************************************************)
(* Completion goroutine.                                                   *)
(***************************************************************************)
\* a WaitGroup the workers were never added to
WaitGroupDoneNoWorkers ==
    /\ gpc = "done"
    /\ spc = "done"

\* a WaitGroup the generator was never added to
WaitGroupDoneNoGenerator ==
    /\ \A i \in WorkerIds : wpc[i] = "done"
    /\ spc = "done"

\* wg.Wait() can return: every goroutine of the WaitGroup has called Done
WaitGroupDone ==
    /\ \A i \in WorkerIds : wpc[i] = "done"
    /\ gpc = "done"
    /\ spc = "done"

\* wg.Wait(); close(jobs)
CompCloseJobs ==
    /\ cpc = "wait"
    /\ WaitGroupDone
    /\ jobsClosed' = TRUE
    /\ cpc' = "closeStats"
    /\ UNCHANGED <<callVars, startVars, ctxVars, jobs, statsCh, statsClosed, resultCh,
                   resultClosed, onceVars, workerVars, genVars, samplerVars,
                   uiVars, panicked, cbLog>>

\* close(r.statsCh)
CompCloseStats ==
    /\ cpc = "closeStats"
    /\ statsClosed' = TRUE
    /\ cpc' = "publish"
    /\ UNCHANGED <<callVars, startVars, ctxVars, jobs, jobsClosed, statsCh, resultCh,
                   resultClosed, onceVars, workerVars, genVars, samplerVars,
                   uiVars, panicked, cbLog>>

\* a completion sequence without the final publication
CompPublishNever ==
    /\ cpc = "publish"
    /\ cpc' = "closeResult"
    /\ UNCHANGED <<callVars, startVars, ctxVars, chanVars, onceVars, workerVars, genVars,
                   samplerVars, uiVars, panicked, cbLog>>

\* if !r.result.Found { r.publishResult(Result{Found: false}) }
CompPublish ==
    /\ cpc = "publish"
    /\ IF ~result.Found
       THEN PublishResult(NoResult)
       ELSE UNCHANGED <<onceVars, resultCh, panicked>>
    /\ cpc' = "closeResult"
    /\ UNCHANGED <<callVars, startVars, ctxVars, jobs, jobsClosed, statsCh, statsClosed,
                   resultClosed, workerVars, genVars, samplerVars, uiVars,
                   cbLog>>

\* close(r.resultCh)
CompCloseResult ==
    /\ cpc = "closeResult"
    /\ resultClosed' = TRUE
    /\ cpc' = "done"
    /\ UNCHANGED <<callVars, startVars, ctxVars, jobs, jobsClosed, statsCh, statsClosed,
                   resultCh, onceVars, workerVars, genVars, samplerVars, uiVars,
                   panicked, cbLog>>

(***************************************************************************)
(* The TUI model: listenStats, listenResult and model.Update.              *)
(***************************************************************************)
\* listenStats delivers a statsMsg; Update stores it and listens again
UiStatsMsg ==
    /\ ui.listenStats /\ ~ui.quit
    /\ Len(statsCh) > 0
    /\ LET msg == Head(statsCh) IN
       ui' = [ui EXCEPT !.lastCounts = msg.PerThread, !.total = msg.Total]
    /\ statsCh' = Tail(statsCh)
    /\ UNCHANGED <<callVars, startVars, ctxVars, jobs, jobsClosed, statsClosed, resultCh,
                   resultClosed, onceVars, workerVars, genVars, samplerVars,
                   cpc, delivered, panicked, cbLog>>

\* listenStats delivers statsClosedMsg
UiStatsClosed ==
    /\ ui.listenStats /\ ~ui.quit
    /\ Len(statsCh) = 0 /\ statsClosed
    /\ ui' = [ui EXCEPT !.statsOpen = FALSE, !.listenStats = FALSE]
    /\ UNCHANGED <<callVars, startVars, ctxVars, chanVars, onceVars, workerVars, genVars,
                   samplerVars, cpc, delivered, panicked, cbLog>>

\* listenResult delivers a resultMsg
UiResultMsg ==
    /\ ui.listenResult /\ ~ui.quit
    /\ Len(resultCh) > 0
    /\ LET msg == Head(resultCh) IN
       /\ delivered' = Append(delivered, msg)
       /\ ui' = IF msg.Found
                THEN [ui EXCEPT !.found = TRUE, !.password = msg.Password,
                                !.quit = TRUE, !.listenResult = FALSE]
                ELSE ui
    /\ resultCh' = Tail(resultCh)
    /\ UNCHANGED <<callVars, startVars, ctxVars, jobs, jobsClosed, statsCh, statsClosed,
                   resultClosed, onceVars, workerVars, genVars, samplerVars,
                   cpc, panicked, cbLog>>

\* listenResult delivers resultClosedMsg
UiResultClosed ==
    /\ ui.listenResult /\ ~ui.quit
    /\ Len(resultCh) = 0 /\ resultClosed
    /\ ui' = [ui EXCEPT !.resultOpen = FALSE, !.listenResult = FALSE,
                        !.quit = ~ui.statsOpen]
    /\ UNCHANGED <<callVars, startVars, ctxVars, chanVars, onceVars, workerVars, genVars,
                   samplerVars, cpc, delivered, panicked, cbLog>>

\* KeyMsg "q" / "ctrl+c": m.cfg.Stop() cancels the parent context and the
\* program quits; the Runner then sees what ParentCancel shows it
UiKeyQuit ==
    /\ ~ui.quit
    /\ parentDone' = TRUE
    /\ ui' = [ui EXCEPT !.quit = TRUE]
    /\ UNCHANGED <<callVars, startVars, cancelCalled, chanVars, onceVars, workerVars,
                   genVars, samplerVars, cpc, delivered, panicked, cbLog>>

\* the caller cancels the context it passed to Start
ParentCancel ==
    /\ ~parentDone
    /\ parentDone' = TRUE
    /\ UNCHANGED <<callVars, startVars, cancelCalled, chanVars, onceVars, workerVars,
                   genVars, samplerVars, cpc, uiVars, panicked, cbLog>>

(***************************************************************************)
(* Specification.                                                          *)
(***************************************************************************)
NextB(maxGen, maxTicks) ==
    \/ Start
    \/ \E id \in WorkerIds : WorkerNew(id)
    \/ \E id \in WorkerIds : WorkerCtxDone(id)
    \/ \E id \in WorkerIds : WorkerRecv(id)
    \/ \E id \in WorkerIds : WorkerCheckErr(id)
    \/ \E id \in WorkerIds : WorkerVerified(id)
    \/ \E id \in WorkerIds : WorkerPublish(id)
    \/ \E id \in WorkerIds : WorkerCallback(id)
    \/ \E id \in WorkerIds : WorkerCancel(id)
    \/ GenCheck(maxGen)
    \/ GenSend
    \/ GenCtxDone
    \/ SamplerCtxDone
    \/ SamplerTick(maxTicks)
    \/ SamplerRead
    \/ SamplerSend
    \/ CompCloseJobs
    \/ CompCloseStats
    \/ CompPublish
    \/ CompCloseResult
    \/ UiStatsMsg
    \/ UiStatsClosed
    \/ UiResultMsg
    \/ UiResultClosed
    \/ ParentCancel

Next == NextB(MaxGen, MaxTicks)

Spec == Init /\ [][Next]_vars

\* the runs whose stats stream is followed: two workers on batches of one
\* candidate, one worker on batches of two
StatsConfigs ==
    {Config(ArchGood, 2, 1, FALSE, "cpu"), Config(ArchGood, 1, 2, FALSE, "cpu")}

StatsSpec == InitWith(StatsConfigs) /\ [][NextB(StatsMaxGen, StatsMaxTicks)]_vars

\* the runs whose stats consumer is slow: one worker, and one tick more than
\* the stats channel buffers
DropConfigs == {Config(ArchGood, 1, 1, FALSE, "cpu")}

\* the runs in which two workers are built on an archive with two encrypted
\* entries, the Vulkan backend asked for
PoolConfigs == {Config(ArchTwo, 2, 1, FALSE, "vulkan")}

PoolSpec == InitWith(PoolConfigs) /\ [][Next]_vars

DropSpec == InitWith(DropConfigs) /\ [][NextB(DropMaxGen, DropMaxTicks)]_vars

(***************************************************************************)
(* Scheduling: a goroutine that can take a step eventually takes one.  The *)
(* ticker, the TUI and the caller are not required to act.                 *)
(***************************************************************************)
\* the worker ids any configuration uses
WorkerSlots == {0, 1}

WorkerProc(id) ==
    /\ id \in WorkerIds
    /\ \/ WorkerNew(id)
       \/ WorkerCtxDone(id)
       \/ WorkerRecv(id)
       \/ WorkerCheckErr(id)
       \/ WorkerVerified(id)
       \/ WorkerPublish(id)
       \/ WorkerCallback(id)
       \/ WorkerCancel(id)

GenProc == GenCheck(MaxGen) \/ GenSend \/ GenCtxDone

SamplerProc == SamplerCtxDone \/ SamplerRead \/ SamplerSend

CompProc == CompCloseJobs \/ CompCloseStats \/ CompPublish \/ CompCloseResult

Fairness ==
    /\ \A id \in WorkerSlots : WF_vars(WorkerProc(id))
    /\ WF_vars(GenProc)
    /\ WF_vars(SamplerProc)
    /\ WF_vars(CompProc)

FairSpec == Spec /\ Fairness

DropGenProc == GenCheck(DropMaxGen) \/ GenSend \/ GenCtxDone

DropFairness ==
    /\ \A id \in WorkerSlots : WF_vars(WorkerProc(id))
    /\ WF_vars(DropGenProc)
    /\ WF_vars(SamplerProc)
    /\ WF_vars(CompProc)

DropFairSpec == DropSpec /\ DropFairness

(***************************************************************************)
(* The archive header parser of internal/verifier/zipheader.go, on the     *)
(* bytes of the archive.  A buffer is a sequence of bytes; the byte at Go  *)
(* offset o is z[o + 1].  Every 32-bit field of the buffers explored is    *)
(* below 2^31.                                                             *)
(***************************************************************************)
SigEOCD == 101010256
SigCentral == 33639248
SigLocal == 67324752
EOCDSize == 22
CentralSize == 46
LocalSize == 30
CipherHeaderSize == 12

\* zipBytes[o:] has at least w bytes (otherwise the read panics)
InRange(z, o, w) == o >= 0 /\ o + w <= Len(z)

\* binary.LittleEndian.Uint16(zipBytes[o:])
U16(z, o) == z[o + 1] + 256 * z[o + 2]

\* binary.LittleEndian.Uint32(zipBytes[o:])
U32(z, o) == z[o + 1] + 256 * z[o + 2] + 65536 * z[o + 3] + 16777216 * z[o + 4]

\* binary.LittleEndian.Uint32(zipBytes[o:]) == sig, byte by byte
HasSig(z, o, sig) ==
    /\ z[o + 1] = sig % 256
    /\ z[o + 2] = (sig \div 256) % 256
    /\ z[o + 3] = (sig \div 65536) % 256
    /\ z[o + 4] = (sig \div 16777216) % 256

\* a comparison that treats a negative bound as no room at all
LessThanSigned(a, n) == a < n

\* a < uint32(n) for an int n that may be negative: the conversion then
\* wraps to 2^32 + n, which is above every a the buffers explored hold
LessThanU32(a, n) == IF n < 0 THEN TRUE ELSE a < n

\* the loop of findEOCD from offset i downwards
RECURSIVE FindEOCDFrom(_, _)
FindEOCDFrom(z, i) ==
    IF i < 0 THEN -1
    ELSE IF HasSig(z, i, SigEOCD) THEN i
    ELSE FindEOCDFrom(z, i - 1)

\* a scan that starts at the front of the buffer
RECURSIVE FindEOCDForward(_, _)
FindEOCDForward(z, i) ==
    IF Len(z) < EOCDSize THEN -1
    ELSE IF i > Len(z) - EOCDSize THEN -1
    ELSE IF HasSig(z, i, SigEOCD) THEN i
    ELSE FindEOCDForward(z, i + 1)

FindEOCDFirst(z) == FindEOCDForward(z, 0)

\* findEOCD
FindEOCD(z) == FindEOCDFrom(z, Len(z) - EOCDSize)

\* a check byte taken from the low byte of the field
CheckByteLow(flag, crc32, modTime) ==
    IF (flag \div 8) % 2 = 1 THEN modTime % 256 ELSE crc32 % 256

\* checkByte: byte(modTime >> 8) if flag&0x08 != 0, else byte(crc32 >> 24)
CheckByte(flag, crc32, modTime) ==
    IF (flag \div 8) % 2 = 1 THEN (modTime \div 256) % 256
    ELSE (crc32 \div 16777216) % 256

\* a data offset computed without the local header's name and extra lengths
DataOffsetFixed(z, lho) == lho + LocalSize

\* encryptedDataOffset := localHeaderOffset + 30 + fileNameLen + extraLen
DataOffset(z, lho) == lho + LocalSize + U16(z, lho + 26) + U16(z, lho + 28)

\* extractZipCryptoInfo: [err, info]
ExtractZipCryptoInfo(z, lho, flag, crc32, modTime) ==
    IF lho + LocalSize > Len(z) THEN [err |-> TRUE]
    ELSE IF ~HasSig(z, lho, SigLocal) THEN [err |-> TRUE]
    ELSE LET off == DataOffset(z, lho) IN
         IF off + CipherHeaderSize > Len(z) THEN [err |-> TRUE]
         ELSE [err |-> FALSE,
               info |-> [EncryptedHeader |-> SubSeq(z, off + 1, off + CipherHeaderSize),
                         CRC32 |-> crc32, ModTime |-> modTime, Flag |-> flag,
                         CheckByte |-> CheckByte(flag, crc32, modTime)]]

\* the fields of the central-directory record at offset
CentralRecord(z, offset) ==
    [flag |-> U16(z, offset + 8), method |-> U16(z, offset + 10),
     modTime |-> U16(z, offset + 12), crc32 |-> U32(z, offset + 16),
     uncompressedSize |-> U32(z, offset + 24),
     fileNameLen |-> U16(z, offset + 28), extraLen |-> U16(z, offset + 30),
     commentLen |-> U16(z, offset + 32),
     localHeaderOffset |-> U32(z, offset + 42)]

\* an advance that leaves out the comment length
NextOffsetNoComment(offset, r) ==
    offset + CentralSize + r.fileNameLen + r.extraLen

\* nextOffset := offset + 46 + fileNameLen + extraLen + commentLen
NextOffset(offset, r) ==
    offset + CentralSize + r.fileNameLen + r.extraLen + r.commentLen

\* the record qualifies: (flag&0x01) != 0 && method == 0
IsStoredEncrypted(r) == r.flag % 2 = 1 /\ r.method = 0

\* the state of the walk before its first record
WalkStart(offset) ==
    [i |-> 0, offset |-> offset, best |-> -1, bestSize |-> -1,
     visited |-> <<>>, qualified |-> <<>>, info |-> <<>>, stop |-> "run"]

\* a selection that also replaces the best record on equal sizes
SmallerOrEqual(usize, w) == w.best = -1 \/ usize <= w.bestSize

\* uint64(uncompressedSize) < bestSize, bestSize starting at ^uint64(0)
Smaller(usize, w) == w.best = -1 \/ usize < w.bestSize

\* one iteration of the loop over the central directory
WalkStep(z, w) ==
    IF ~InRange(z, w.offset, 4) THEN [w EXCEPT !.stop = "panic"]
    ELSE IF ~HasSig(z, w.offset, SigCentral) THEN [w EXCEPT !.stop = "err"]
    ELSE IF ~InRange(z, w.offset, CentralSize) THEN [w EXCEPT !.stop = "panic"]
    ELSE LET r == CentralRecord(z, w.offset)
             x == IF IsStoredEncrypted(r)
                     /\ LessThanU32(r.localHeaderOffset, Len(z) - LocalSize)
                  THEN ExtractZipCryptoInfo(z, r.localHeaderOffset, r.flag,
                                            r.crc32, r.modTime)
                  ELSE [err |-> TRUE]
             take == ~x.err /\ Smaller(r.uncompressedSize, w)
         IN  [w EXCEPT !.i = w.i + 1,
                       !.offset = NextOffset(w.offset, r),
                       !.visited = Append(w.visited, w.offset),
                       !.qualified = IF IsStoredEncrypted(r)
                                     THEN Append(w.qualified, w.offset)
                                     ELSE w.qualified,
                       !.best = IF take THEN w.offset ELSE w.best,
                       !.bestSize = IF take THEN r.uncompressedSize
                                    ELSE w.bestSize,
                       !.info = IF take THEN x.info ELSE w.info]

\* for i := 0; i < numEntries && offset < uint32(len(zipBytes)-46); i++
RECURSIVE Walk(_, _, _)
Walk(z, numEntries, w) ==
    IF w.stop # "run" THEN w
    ELSE IF ~(w.i < numEntries /\ LessThanU32(w.offset, Len(z) - CentralSize))
    THEN [w EXCEPT !.stop = "end"]
    ELSE Walk(z, numEntries, WalkStep(z, w))

\* parseZipHeaders: kind "ok" with the selected record's info, "err" for a
\* returned error, "panic" for a slice or index out of range
ParseZipHeaders(z) ==
    IF Len(z) < EOCDSize THEN [kind |-> "err", why |-> "small"]
    ELSE LET eocd == FindEOCD(z) IN
    IF eocd = -1 THEN [kind |-> "err", why |-> "eocd"]
    ELSE LET cdOffset == U32(z, eocd + 16)
             numEntries == U16(z, eocd + 10)
         IN
    IF cdOffset >= Len(z) THEN [kind |-> "err", why |-> "cdoffset", eocd |-> eocd]
    ELSE LET w == Walk(z, numEntries, WalkStart(cdOffset)) IN
    IF w.stop = "panic"
    THEN [kind |-> "panic", eocd |-> eocd, visited |-> w.visited]
    ELSE IF w.stop = "err"
    THEN [kind |-> "err", why |-> "signature", eocd |-> eocd,
          visited |-> w.visited]
    ELSE IF w.best = -1
    THEN [kind |-> "err", why |-> "none", eocd |-> eocd,
          visited |-> w.visited, qualified |-> w.qualified,
          numEntries |-> numEntries]
    ELSE [kind |-> "ok", eocd |-> eocd, visited |-> w.visited,
          qualified |-> w.qualified, numEntries |-> numEntries,
          best |-> w.best, info |-> w.info]

(***************************************************************************)
(* Archive buffers for the header parser: local file headers, then the     *)
(* central directory, then the end-of-central-directory record.            *)
(***************************************************************************)
ParseMaxEntries == 2

\* the sequences over S with at most n elements
SeqsUpTo(S, n) == UNION {[1..k -> S] : k \in 0..n}

Range(s) == {s[k] : k \in 1..Len(s)}

LE16(n) == <<n % 256, (n \div 256) % 256>>

LE32(n) == <<n % 256, (n \div 256) % 256, (n \div 65536) % 256,
             (n \div 16777216) % 256>>

Zeros(n) == [j \in 1..n |-> 0]

RECURSIVE Concat(_)
Concat(ss) == IF ss = <<>> THEN <<>> ELSE Head(ss) \o Concat(Tail(ss))

\* what entry k carries: CRC-32, modification time, cipher header
EntryCRC(k) == (16 + k) * 16777216 + 4660 + k
EntryTime(k) == (80 + k) * 256 + 7 + k
EntryCipher(k) == [j \in 1..CipherHeaderSize |-> 32 * k + j]
EntryFlag(d) == (IF d.enc THEN 1 ELSE 0) + (IF d.bit3 THEN 8 ELSE 0)

\* the name, extra and comment lengths the records of the buffers declare
LocalNameLen == 2
LocalExtraLen == 1
CentralNameLen == 1
CentralExtraLen == 2
CentralCommentLen == 3
HugeExtraLen == 250

\* the local header of entry k, its name and extra field, the 12-byte
\* cipher header and one byte of data.  The local header's own flags, time
\* and CRC are zero, so they differ from the central directory's.
LocalBytes(k, d) ==
    Concat(<<LE32(IF d.lh = "nosig" THEN 0 ELSE SigLocal), LE16(20),
             LE16(IF d.enc THEN 1 ELSE 0), LE16(d.method), LE16(0), LE16(0),
             LE32(0), LE32(d.usize + CipherHeaderSize), LE32(d.usize),
             LE16(LocalNameLen),
             LE16(IF d.lh = "short" THEN HugeExtraLen ELSE LocalExtraLen),
             Zeros(LocalNameLen), Zeros(LocalExtraLen),
             EntryCipher(k), Zeros(1)>>)

LocalLen == LocalSize + LocalNameLen + LocalExtraLen + CipherHeaderSize + 1

\* the central-directory record of entry k
CentralBytes(k, d, sigOk, lho) ==
    Concat(<<LE32(IF sigOk THEN SigCentral ELSE 0), LE16(20), LE16(20),
             LE16(EntryFlag(d)), LE16(d.method), LE16(EntryTime(k)), LE16(0),
             LE32(EntryCRC(k)), LE32(d.usize + CipherHeaderSize),
             LE32(d.usize), LE16(CentralNameLen), LE16(CentralExtraLen),
             LE16(CentralCommentLen), LE16(0), LE16(0), LE32(0), LE32(lho),
             Zeros(CentralNameLen + CentralExtraLen + CentralCommentLen)>>)

CentralLen == CentralSize + CentralNameLen + CentralExtraLen + CentralCommentLen

\* the end-of-central-directory record
EOCDBytes(declared, cdSize, cdOffset) ==
    Concat(<<LE32(SigEOCD), LE16(0), LE16(0), LE16(declared), LE16(declared),
             LE32(cdSize), LE32(cdOffset), LE16(0)>>)

\* the archive of entries ds; declared is the entry count the EOCD record
\* states, badSig the entry whose central record has a wrong signature (0
\* for none), cdPast whether the EOCD points past the end of the buffer
ArchiveBytes(ds, declared, badSig, cdPast) ==
    LET n == Len(ds)
        total == n * LocalLen + n * CentralLen + EOCDSize
        lho(k) == IF ds[k].lh = "range" THEN total ELSE (k - 1) * LocalLen
    IN  Concat([k \in 1..n |-> LocalBytes(k, ds[k])])
        \o Concat([k \in 1..n |-> CentralBytes(k, ds[k], k # badSig, lho(k))])
        \o EOCDBytes(declared, n * CentralLen,
                     IF cdPast THEN total ELSE n * LocalLen)

\* where the records of ArchiveBytes(ds, ...) lie
LocalOffsetOf(k) == (k - 1) * LocalLen
CentralOffsetOf(n, k) == n * LocalLen + (k - 1) * CentralLen

\* the entries: stored and encrypted ones with every state of the local
\* header (readable, wrong signature, offset out of range, too little data
\* behind it), and unencrypted or deflated ones with a readable local header
EntryDescs ==
    [enc : {TRUE}, method : {0}, usize : {5, 10}, bit3 : BOOLEAN,
     lh : {"ok", "nosig", "range", "short"}]
    \cup {d \in [enc : BOOLEAN, method : {0, 8}, usize : {5, 10},
                  bit3 : {FALSE}, lh : {"ok"}] : ~(d.enc /\ d.method = 0)}

\* an EOCD record alone, a central signature before an EOCD record that
\* declares one entry at offset 0, an EOCD record followed by a comment that
\* holds the EOCD signature again (within or before the last 22 bytes), a
\* buffer without the signature, and buffers shorter than an EOCD record
RawBuffers ==
    {EOCDBytes(0, 0, 0),
     LE32(SigCentral) \o EOCDBytes(1, 0, 0),
     Zeros(2) \o EOCDBytes(1, 0, 0),
     EOCDBytes(0, 0, 0) \o Zeros(3) \o LE32(SigEOCD) \o Zeros(2),
     EOCDBytes(0, 0, 0) \o LE32(SigEOCD) \o Zeros(18),
     EOCDBytes(0, 0, 0) \o LE32(SigEOCD) \o Zeros(20),
     Zeros(3) \o EOCDBytes(0, 0, 3) \o EOCDBytes(0, 0, 0),
     Zeros(EOCDSize), Zeros(EOCDSize + 4), Zeros(EOCDSize - 1),
     LE32(SigEOCD) \o Zeros(EOCDSize - 5), <<>>}

\* the ways the directory of n entries is declared: faithfully, with one
\* entry fewer or more than present, with one record's signature wrong, or
\* at an offset past the end of the buffer
Declarations(n) ==
    {[declared |-> c, badSig |-> 0, cdPast |-> FALSE] : c \in (n - 1)..(n + 1)}
    \cup {[declared |-> n, badSig |-> k, cdPast |-> FALSE] : k \in 1..n}
    \cup {[declared |-> n, badSig |-> 0, cdPast |-> TRUE]}

BuiltBuffers ==
    UNION {{ArchiveBytes(ds, dcl.declared, dcl.badSig, dcl.cdPast) :
               dcl \in Declarations(Len(ds))} :
           ds \in SeqsUpTo(EntryDescs, ParseMaxEntries) \ {<<>>}}

(***************************************************************************)
(* The functions of the repository called on their own, on every input of  *)
(* a bounded set: NewRunner, generateBatch, charset.Combine,               *)
(* cpuVerifier.NewWorker and the BatchVerify of both backends.             *)
(***************************************************************************)
Args == (-1)..MaxArg

NewRunnerCalls ==
    {[fn |-> "NewRunner",
      cfgIn |-> [Config(ArchGood, w, b, FALSE, "cpu") EXCEPT !.ReportEvery = e]] :
        w \in Args, b \in Args, e \in Args}

Alphabets == {<<>>, <<"a">>, <<"a", "b">>}

GenerateBatchCalls ==
    {[fn |-> "generateBatch", alphabet |-> a, minLen |-> lo, maxLen |-> hi,
      batchSize |-> n] :
        a \in Alphabets, lo \in 0..GenMaxLen, hi \in 0..GenMaxLen, n \in Args}

\* an empty alphabet with any minLen and maxLen, also negative or swapped
EmptyAlphabetCalls ==
    {[fn |-> "generateBatch", alphabet |-> <<>>, minLen |-> lo, maxLen |-> hi,
      batchSize |-> n] : lo \in Args, hi \in Args, n \in Args}

Runes == {"a", "b", "c"}

CombineCalls ==
    {[fn |-> "Combine", sets |-> ss] :
        ss \in SeqsUpTo(SeqsUpTo(Runes, MaxClassLen), MaxClasses)}

EntrySizes == {0, 5, SizeMax}

EntryKinds ==
    {Entry(d, e, TRUE, s) : d \in BOOLEAN, e \in BOOLEAN, s \in EntrySizes}

\* zero bytes handed to NewWorker
ArchEmptyBytes ==
    [nbytes |-> 0, readable |-> FALSE, password |-> <<"a">>, entries |-> <<>>]

Archives ==
    {[nbytes |-> 1, readable |-> TRUE, password |-> <<"a">>, entries |-> es] :
        es \in SeqsUpTo(EntryKinds, MaxEntries)}
    \cup {ArchMalformed, ArchEmptyBytes}

NewWorkerCalls == {[fn |-> "cpuNewWorker", zipBytes |-> z] : z \in Archives}

Candidates == {<<"a">>, <<"b">>}

Batches == SeqsUpTo(Candidates, MaxBatchLen)

CpuBatchVerifyCalls ==
    {[fn |-> "cpuBatchVerify", zipBytes |-> z,
      targetIndex |-> CpuNewWorker(z).target, batch |-> b] :
        z \in {ArchGood, ArchTwo}, b \in Batches}

VulkanBatchVerifyCalls ==
    {[fn |-> "vulkanBatchVerify", zipBytes |-> ArchGood, batchSize |-> n,
      batch |-> b, uploadOk |-> u, dispatchOk |-> d, mapOk |-> m] :
        n \in {GpuBatchSmall, DefaultGPUBatchSize}, b \in Batches,
        u \in BOOLEAN, d \in BOOLEAN, m \in BOOLEAN}

FaultyBatchLen == 2

CpuBatchVerifyFaultyCalls ==
    {[fn |-> "cpuBatchVerifyFaulty", zipBytes |-> ArchGood,
      targetIndex |-> CpuNewWorker(ArchGood).target, batch |-> c[1],
      faults |-> c[2]] :
        c \in UNION {{<<b, f>> : f \in [1..Len(b) -> TryFaults]} :
                     b \in SeqsUpTo(Candidates, FaultyBatchLen)}}

CloseCalls ==
    {[fn |-> "Close", worker |-> w, times |-> n] :
        w \in {CpuWorker, VulkanWorker}, n \in 0..CloseMaxCalls}

\* archives whose entries may be deflated and may be encrypted directories
SelectSizes == {0, 5}

SelectKinds ==
    {Entry(d, e, st, s) :
        d \in BOOLEAN, e \in BOOLEAN, st \in BOOLEAN, s \in SelectSizes}

SelectCalls ==
    {[fn |-> "selectBoth",
      zipBytes |-> [nbytes |-> 1, readable |-> TRUE, password |-> <<"a">>,
                    entries |-> es]] :
        es \in SeqsUpTo(SelectKinds, MaxEntries)}

\* result buffers of SlotCap slots with every content, zero or not
SlotCap == 3

SlotValues == {0, 1, 7}

DownloadResultsCalls ==
    {[fn |-> "downloadResults", slots |-> s, batchLen |-> n, mapOk |-> m] :
        s \in [1..SlotCap -> SlotValues], n \in 0..SlotCap, m \in BOOLEAN}

ReleaseLogCalls ==
    {[fn |-> "releaseLog", vfail |-> vf, wfail |-> wf, closes |-> n] :
        vf \in Range(VerifierStages) \cup {"none"},
        wf \in Range(WorkerStages) \cup {"none"},
        n \in 0..CloseMaxCalls}

\* candidates by byte length, up to and beyond MaxPasswordLength
PasswordByteLens ==
    {0, 1, 4, 5, MaxPasswordLength, MaxPasswordLength + 1,
     2 * MaxPasswordLength + 1}

UploadPasswordDataCalls ==
    {[fn |-> "uploadPasswordData", batchSize |-> n, lens |-> ls] :
        n \in 1..GpuBatchSmall,
        ls \in SeqsUpTo(PasswordByteLens, GpuBatchSmall)}

\* the runner is constructed and left alone while the functions are called
CallConfigs == {Config(ArchGood, 1, 1, FALSE, "cpu")}

CallInit ==
    /\ RunnerInit(CallConfigs)
    /\ ret = NoReturn
    /\ \/ call \in NewRunnerCalls
       \/ call \in {c \in GenerateBatchCalls : c.minLen <= c.maxLen}
       \/ call \in EmptyAlphabetCalls
       \/ call \in CombineCalls
       \/ call \in NewWorkerCalls
       \/ call \in CpuBatchVerifyCalls
       \/ call \in VulkanBatchVerifyCalls
       \/ call \in CpuBatchVerifyFaultyCalls
       \/ call \in CloseCalls
       \/ call \in SelectCalls
       \/ call \in DownloadResultsCalls
       \/ call \in ReleaseLogCalls
       \/ call \in {c \in UploadPasswordDataCalls : Len(c.lens) <= c.batchSize}

\* the call returns val
Return(val) ==
    /\ ~ret.done
    /\ ret' = [done |-> TRUE, val |-> val]
    /\ UNCHANGED <<call, startVars, ctxVars, chanVars, onceVars, workerVars,
                   genVars, samplerVars, cpc, uiVars, panicked, cbLog>>

CallNewRunner ==
    /\ call.fn = "NewRunner"
    /\ Return(NewRunner(call.cfgIn))

CallGenerateBatch ==
    /\ call.fn = "generateBatch"
    /\ \E b \in GenerateBatch(call.alphabet, call.minLen, call.maxLen,
                              call.batchSize) : Return(b)

CallCombine ==
    /\ call.fn = "Combine"
    /\ Return(Combine(call.sets))

CallCpuNewWorker ==
    /\ call.fn = "cpuNewWorker"
    /\ Return(CpuNewWorker(call.zipBytes))

CallCpuBatchVerify ==
    /\ call.fn = "cpuBatchVerify"
    /\ Return(CpuBatchVerifyTrace(call.zipBytes, call.targetIndex, call.batch))

CallVulkanBatchVerify ==
    /\ call.fn = "vulkanBatchVerify"
    /\ LET r == VulkanBatchVerify(call.zipBytes, call.batchSize, call.batch,
                                  call.uploadOk, call.dispatchOk, call.mapOk)
       IN  Return([match |-> r[1], attempts |-> r[2]])

CallCpuBatchVerifyFaulty ==
    /\ call.fn = "cpuBatchVerifyFaulty"
    /\ Return(CpuBatchVerifyFaulty(call.zipBytes, call.targetIndex, call.batch,
                                   call.faults))

CallClose ==
    /\ call.fn = "Close"
    /\ Return(CloseTimes(call.worker, call.times))

\* both backends' NewWorker select their entry of the same archive
CallSelectBoth ==
    /\ call.fn = "selectBoth"
    /\ Return([cpu |-> CpuNewWorker(call.zipBytes),
               gpu |-> [err |-> VulkanParseErr(call.zipBytes),
                        target |-> VulkanTarget(call.zipBytes)]])

CallDownloadResults ==
    /\ call.fn = "downloadResults"
    /\ Return(ScanSlots(call.slots, call.batchLen, call.mapOk))

CallReleaseLog ==
    /\ call.fn = "releaseLog"
    /\ Return(ReleaseLog(call.vfail, call.wfail, call.closes))

CallUploadPasswordData ==
    /\ call.fn = "uploadPasswordData"
    /\ Return(UploadPasswordData(call.batchSize, call.lens))

CallNext ==
    \/ CallNewRunner
    \/ CallGenerateBatch
    \/ CallCombine
    \/ CallCpuNewWorker
    \/ CallCpuBatchVerify
    \/ CallVulkanBatchVerify
    \/ CallCpuBatchVerifyFaulty
    \/ CallClose
    \/ CallSelectBoth
    \/ CallDownloadResults
    \/ CallReleaseLog
    \/ CallUploadPasswordData

CallSpec == CallInit /\ [][CallNext]_vars

(***************************************************************************)
(* The header parser called on its own, on every buffer above.             *)
(***************************************************************************)
ParseZipHeadersCalls ==
    {[fn |-> "parseZipHeaders", zipBytes |-> z] : z \in BuiltBuffers \cup RawBuffers}

FindEOCDCalls == {[fn |-> "findEOCD", zipBytes |-> z] : z \in RawBuffers}

ParseInit ==
    /\ RunnerInit(CallConfigs)
    /\ ret = NoReturn
    /\ \/ call \in ParseZipHeadersCalls
       \/ call \in FindEOCDCalls

CallParseZipHeaders ==
    /\ call.fn = "parseZipHeaders"
    /\ Return(ParseZipHeaders(call.zipBytes))

CallFindEOCD ==
    /\ call.fn = "findEOCD"
    /\ Return(FindEOCD(call.zipBytes))

ParseNext ==
    \/ CallParseZipHeaders
    \/ CallFindEOCD

ParseSpec == ParseInit /\ [][ParseNext]_vars

(***************************************************************************)
(* Properties of the Runner.                                               *)
(***************************************************************************)
\* the generator, every worker and the sampler have exited
AllExited ==
    /\ \A id \in WorkerIds : wpc[id] = "done"
    /\ gpc = "done"
    /\ spc = "done"

\* the number of Results sent on the result channel so far
ResultsSent == Len(resultCh) + Len(delivered)

\* C1: at most one Result is ever sent on the result channel, and every
\* publishResult call after the first leaves r.result and the channel as
\* they are.
C1_AtMostOneResult ==
    /\ [](ResultsSent <= 1)
    /\ [][(Len(pubLog) >= 1 /\ pubLog' # pubLog)
             => UNCHANGED <<result, resultCh, onceResult>>]_vars

\* two workers have both called publishResult with a match
C1_Witness ==
    /\ Len(pubLog) >= 2
    /\ pubLog[1].Found /\ pubLog[2].Found
    /\ ResultsSent = 1

\* C2: when the result channel is closed, exactly one Result has been
\* placed on it.
C2_ExactlyOneResult ==
    resultClosed => (AllExited /\ ResultsSent = 1)

\* the consumer has read the one Result and then seen the channel closed
C2_Witness ==
    /\ resultClosed
    /\ Len(delivered) = 1
    /\ ~ui.resultOpen

\* C3: the completion sequence runs after every goroutine of the WaitGroup
\* has exited, in the order close(jobs), close(statsCh), the not-found
\* publication (only if no match was published), close(resultCh).
C3_ShutdownOrder ==
    /\ jobsClosed => AllExited
    /\ statsClosed => jobsClosed
    /\ resultClosed => (statsClosed /\ onceResult)
    /\ (onceResult /\ ~result.Found)
         => (statsClosed /\ \A k \in 1..Len(pubLog) : ~pubLog[k].Found)
    /\ (cpc \in {"closeResult", "done"} /\ \E k \in 1..Len(pubLog) : pubLog[k].Found)
         => \A k \in 1..Len(pubLog) : pubLog[k].Found

\* the completion sequence has run to its end without a match
C3_Witness ==
    /\ cpc = "done"
    /\ jobsClosed /\ statsClosed /\ resultClosed
    /\ ~result.Found
    /\ \E id \in WorkerIds : counters[id] > 0

\* C4: once the context of a started run is cancelled, by the caller or by
\* a worker that found a match, the generator, every worker and the sampler
\* eventually exit and the stats and result channels are eventually closed
\* (every BatchVerify call in progress is assumed to return).
C4_CancelDrains ==
    (started /\ CtxDone) ~> (AllExited /\ statsClosed /\ resultClosed)

\* a run cancelled by a worker's match alone has drained
C4_Witness ==
    /\ cancelCalled /\ ~parentDone
    /\ AllExited
    /\ statsClosed /\ resultClosed

\* every Result sent so far
SentResults ==
    {resultCh[k] : k \in 1..Len(resultCh)} \cup
    {delivered[k] : k \in 1..Len(delivered)}

\* worker id's BatchVerify reported a match index inside its batch
ReportedMatch(id) == wmatch[id] >= 0 /\ wmatch[id] < Len(wb[id])

\* C5: a sent Result is found with password p exactly when some worker's
\* BatchVerify reported a match index i inside its batch b, and then
\* p = b[i] for the first publication; not-found is sent only when no
\* worker ever reported a match.
C5_ResultMatchesReport ==
    \A r \in SentResults :
        /\ r.Found <=> \E id \in WorkerIds : ReportedMatch(id)
        /\ r.Found =>
             /\ pubLog[1] = r
             /\ \E id \in WorkerIds :
                  /\ ReportedMatch(id)
                  /\ wpc[id] \in {"callback", "cancel", "done"}
                  /\ r.Password = wb[id][wmatch[id] + 1]
        /\ ~r.Found => r.Password = <<>>

\* a match at index 1 of a batch of two has been sent
C5_Witness ==
    /\ \E id \in WorkerIds : wmatch[id] = 1 /\ wb[id] = <<(<<"b">>), (<<"a">>)>>
    /\ \E r \in SentResults : r.Found /\ r.Password = <<"a">>

\* no worker can be built on the archive for the selected backend
ArchiveRejected ==
    IF v = "vulkan" THEN VulkanParseErr(cfg.ZipBytes)
    ELSE CpuNewWorker(cfg.ZipBytes).err

\* C6: for an archive that is malformed, has no entries or has no qualifying
\* encrypted entry, Start returns a non-nil error and no worker processes a
\* batch.
C6_ArchiveErrorReturned ==
    (started /\ ArchiveRejected) =>
        /\ startErr
        /\ \A id \in WorkerIds : wpc[id] \in {"new", "done"} /\ counters[id] = 0

\* C7: when the Vulkan backend is requested and NewVulkan fails, Start
\* selects the CPU verifier and returns nil, and the workers that run are
\* CPU workers.
C7_VulkanFallback ==
    verr =>
        /\ v = "cpu"
        /\ startErr = FALSE
        /\ \A id \in WorkerIds :
             wpc[id] \notin {"new", "done"} =>
                 wtarget[id] = CpuNewWorker(cfg.ZipBytes).target

\* after a failed NewVulkan a CPU worker has verified a batch
C7_Witness ==
    /\ verr
    /\ cfg.Backend = "vulkan"
    /\ \E id \in WorkerIds : counters[id] > 0 /\ wtarget[id] >= 0

\* C8: the jobs queue never holds more than 2 x Workers batches, and a
\* generator that is sending into a full queue stays suspended, holding its
\* one batch, until a worker receives or the context is cancelled.
C8_Backpressure ==
    /\ [](Len(jobs) <= JobsPerWorker * cfg.Workers)
    /\ [][(gpc = "send" /\ Len(jobs) = JobsPerWorker * cfg.Workers)
             => \/ gpc' = "send" /\ gb' = gb /\ Len(jobs') <= Len(jobs)
                \/ gpc' = "done" /\ CtxDone /\ jobs' = jobs
                \/ Len(jobs') < Len(jobs)]_vars

\* the queue is full and the generator is suspended on its send
C8_Witness ==
    /\ Len(jobs) = JobsPerWorker * cfg.Workers
    /\ gpc = "send"
    /\ ~CtxDone

\* the attempts BatchVerify can return for worker id's batch
PossibleAttempts(id) ==
    {BatchVerify(v, cfg.ZipBytes, wtarget[id], wb[id], u, d, m)[2] :
        u \in BOOLEAN, d \in BOOLEAN, m \in BOOLEAN}

\* C9: a worker that has entered BatchVerify leaves it only by returning
\* from it and adding the attempts to its counter, whether or not the
\* context was cancelled meanwhile.
C9_VerifyNotPreempted ==
    [][\A id \in WorkerIds :
          (wpc[id] = "verify" /\ wpc'[id] # "verify") =>
              /\ wpc'[id] \in {"publish", "select"}
              /\ (counters'[id] - counters[id]) \in PossibleAttempts(id)
              /\ counters'[id] > counters[id]]_vars

\* the context is cancelled while a worker is inside BatchVerify
C9_Witness ==
    \E id \in WorkerIds : wpc[id] = "verify" /\ CtxDone

\* snapshot a is at most snapshot b, in every per-worker count and the total
SnapLeq(a, b) ==
    /\ \A i \in DOMAIN a.PerThread : a.PerThread[i] <= b.PerThread[i]
    /\ a.Total <= b.Total

\* the snapshot the TUI received last (all zero before the first)
LastReceived == [PerThread |-> ui.lastCounts, Total |-> ui.total]

\* C10: no worker's counter ever decreases, and the Stats snapshots sent on
\* the stats channel are non-decreasing, in every per-worker count and in
\* the total, in the order they were sent.
C10_CountsMonotone ==
    /\ [][\A id \in WorkerIds : counters'[id] >= counters[id]]_vars
    /\ [](\A k \in 1..(Len(statsCh) - 1) : SnapLeq(statsCh[k], statsCh[k + 1]))
    /\ [](Len(statsCh) > 0 => SnapLeq(LastReceived, statsCh[1]))

\* two snapshots of a two-worker run are in the channel, the later larger
C10_Witness ==
    /\ cfg.Workers = 2
    /\ Len(statsCh) = 2
    /\ statsCh[1].Total < statsCh[2].Total
    /\ statsCh[1].PerThread[0] < statsCh[2].PerThread[0]

(***************************************************************************)
(* Properties of the stats stream with a slow consumer.                    *)
(***************************************************************************)
\* the Timestamp values of the snapshots buffered in the stats channel
BufferedStamps == {statsCh[k].Timestamp : k \in 1..Len(statsCh)}

\* C11: the sampler never waits on the stats channel: its send step can
\* always be taken, with a full buffer it leaves the channel as it is and
\* returns to its select, and once the context is cancelled the sampler
\* exits and the run completes whatever the consumer does.
C11_SamplerNeverBlocks ==
    /\ [](spc = "send" => ENABLED SamplerSend)
    /\ [][(spc = "send" /\ Len(statsCh) = StatsChCap /\ spc' # "send")
             => (spc' = "select" /\ statsCh' = statsCh)]_vars
    /\ (started /\ CtxDone) ~> (spc = "done" /\ resultClosed)

\* the sampler skipped a send on the full channel, then exited on
\* cancellation, and the run completed with the channel still full
C11_Witness ==
    /\ Len(statsCh) = StatsChCap
    /\ ticks > StatsChCap
    /\ spc = "done"
    /\ resultClosed

\* C12 as stated: after every send attempt the snapshot just sampled is
\* among those buffered for the consumer.
C12_LatestKept ==
    [][(spc = "send" /\ spc' = "select") => ticks \in BufferedStamps']_vars

\* C12: a send attempt appends the new snapshot when the buffer has room
\* and otherwise discards the new snapshot, keeping the buffered older ones;
\* the sampler never removes a buffered snapshot.
C12_NewestDropped ==
    [][(spc = "send" /\ spc' = "select") =>
          LET s == [PerThread |-> sper, Total |-> stotal, Timestamp |-> ticks]
          IN  statsCh' = IF Len(statsCh) < StatsChCap THEN Append(statsCh, s)
                         ELSE statsCh]_vars

\* nine snapshots were sampled with no consumer: the first eight are
\* buffered and the ninth is gone
C12_Witness ==
    /\ ticks = StatsChCap + 1
    /\ spc = "select"
    /\ BufferedStamps = 1..StatsChCap

(***************************************************************************)
(* Properties of worker construction.                                      *)
(***************************************************************************)
\* what the caller of NewRunner and Start can observe of a run
CallerVisible ==
    <<startErr, statsCh, statsClosed, resultCh, resultClosed, cbLog, panicked>>

\* worker id was built and has not failed
Built(id) == wpc[id] \notin {"idle", "new"} /\ ~werr[id]

\* C13: when the construction of one worker fails in a run in which another
\* worker was built, the failure is surfaced to the caller as a worker-start
\* failure (the step in which NewWorker returns the error changes something
\* the caller can observe), and the workers that were built stay as they are.
C13_WorkerFailureSurfaced ==
    [][\A id \in WorkerIds :
          (~werr[id] /\ werr'[id] /\ \E j \in WorkerIds : Built(j)) =>
              /\ CallerVisible' # CallerVisible
              /\ \A j \in WorkerIds \ {id} : wpc'[j] = wpc[j]]_vars

Returned(fn) == call.fn = fn /\ ret.done

\* C14 as stated: NewRunner turns a non-positive worker count into 1, a
\* non-positive batch size into 1 and a non-positive report interval into
\* the default interval, and keeps positive values.
C14_NormalizedToOne ==
    Returned("NewRunner") =>
        LET c == call.cfgIn
            r == ret.val
        IN  /\ r.Workers = IF c.Workers <= 0 THEN 1 ELSE c.Workers
            /\ r.BatchSize = IF c.BatchSize <= 0 THEN 1 ELSE c.BatchSize
            /\ r.ReportEvery = IF c.ReportEvery <= 0 THEN DefaultReportEvery
                               ELSE c.ReportEvery

\* C14: NewRunner turns a non-positive worker count into 1, a non-positive
\* batch size into the default batch size 1024 and a non-positive report
\* interval into the default interval, keeps positive values and leaves
\* every other field of the configuration as it is.
C14_NormalizedToDefaults ==
    Returned("NewRunner") =>
        LET c == call.cfgIn
            r == ret.val
        IN  /\ r.Workers = IF c.Workers <= 0 THEN 1 ELSE c.Workers
            /\ r.BatchSize = IF c.BatchSize <= 0 THEN 1024 ELSE c.BatchSize
            /\ r.ReportEvery = IF c.ReportEvery <= 0 THEN DefaultReportEvery
                               ELSE c.ReportEvery
            /\ \A f \in DOMAIN c \ {"Workers", "BatchSize", "ReportEvery"} :
                   r[f] = c[f]

\* NewRunner has returned for a configuration with batch size 0
C14_Witness ==
    /\ Returned("NewRunner")
    /\ call.cfgIn.BatchSize = 0 /\ call.cfgIn.Workers = 0
    /\ ret.val.BatchSize = 1024 /\ ret.val.Workers = 1

\* every candidate of batch b has between lo and hi symbols, all of them
\* symbols of the alphabet a
CandidatesWithin(b, a, lo, hi) ==
    \A k \in 1..Len(b) :
        /\ Len(b[k]) >= lo /\ Len(b[k]) <= hi
        /\ \A j \in 1..Len(b[k]) : b[k][j] \in Range(a)

RECURSIVE Flatten(_)
Flatten(sets) ==
    IF Len(sets) = 0 THEN <<>> ELSE Head(sets) \o Flatten(Tail(sets))

\* the position at which r first occurs in s
FirstIndex(s, r) == CHOOSE k \in 1..Len(s) : s[k] = r /\ \A j \in 1..(k - 1) : s[j] # r

\* C16: Combine returns the symbols of its input classes in the order of
\* their first occurrence, every duplicate removed, and is idempotent:
\* Combine(S, S) = Combine(S) and Combine(Combine(S...)) = Combine(S...).
C16_CombineDedupOrdered ==
    Returned("Combine") =>
        LET out == ret.val
            flat == Flatten(call.sets)
        IN  /\ Range(out) = Range(flat)
            /\ \A i \in 1..Len(out) : \A j \in 1..Len(out) :
                   /\ (i # j => out[i] # out[j])
                   /\ (i < j => FirstIndex(flat, out[i]) < FirstIndex(flat, out[j]))
            /\ Combine(call.sets \o call.sets) = out
            /\ Combine(<<out>>) = out

\* two overlapping classes have been combined
C16_Witness ==
    /\ Returned("Combine")
    /\ call.sets = <<(<<"b", "a">>), (<<"a", "c">>)>>
    /\ ret.val = <<"b", "a", "c">>

\* the entries of zip (1-based) that are no directories and are encrypted
Qualifying(zip) ==
    {k \in 1..Len(zip.entries) : ~zip.entries[k].dir /\ zip.entries[k].enc}

\* C17: cpuVerifier.NewWorker chooses, among the entries that are not
\* directories and are encrypted, the one with the smallest uncompressed
\* size, the first of equal size; it fails exactly when the archive cannot
\* be read, has no entries or has no such entry.
C17_SmallestEncryptedChosen ==
    Returned("cpuNewWorker") =>
        LET zip == call.zipBytes
            q == Qualifying(zip)
            t == ret.val.target + 1
        IN  IF zip.nbytes = 0 \/ ~zip.readable \/ q = {}
            THEN ret.val.err
            ELSE /\ ~ret.val.err
                 /\ t \in q
                 /\ \A k \in q :
                        /\ zip.entries[t].size <= zip.entries[k].size
                        /\ (zip.entries[k].size = zip.entries[t].size => t <= k)

\* C19: for both backends and every batch, BatchVerify returns attempts
\* between 0 and len(batch) and a match index that is -1 or an index of the
\* batch.
C19_BatchVerifyInRange ==
    (Returned("cpuBatchVerify") \/ Returned("vulkanBatchVerify")) =>
        /\ ret.val.attempts >= 0 /\ ret.val.attempts <= Len(call.batch)
        /\ \/ ret.val.match = -1
           \/ ret.val.match >= 0 /\ ret.val.match < Len(call.batch)

\* the Vulkan worker cut a batch of three to its two slots and found the
\* match in the second
C19_Witness ==
    /\ Returned("vulkanBatchVerify")
    /\ call.batchSize < Len(call.batch)
    /\ ret.val.attempts = call.batchSize
    /\ ret.val.match = 1

CutBatch(b, capacity) ==
    IF Len(b) > capacity THEN SubSeq(b, 1, capacity) ELSE b

\* C21: a failure during verification becomes "not a match" and nothing
\* else.  On the CPU path a candidate whose attempt meets an error from
\* creating the reader, opening, reading or closing is never the reported
\* match, the scan goes on to the next candidate, and the reported match is
\* the first candidate that is the password and met no error.  On the GPU
\* path a failed upload or dispatch gives no match for the whole batch, with
\* the attempts of the batch as cut to capacity.  Either way the call returns
\* the ordinary pair and the runner's error state stays as it was.
C21_FailureIsNoMatch ==
    /\ Returned("cpuBatchVerifyFaulty") =>
        LET b == call.batch
            f == call.faults
            r == ret.val
            good == {i \in 0..(Len(b) - 1) :
                        b[i + 1] = call.zipBytes.password /\ f[i + 1] = "none"}
        IN  /\ \A i \in 0..(Len(b) - 1) : f[i + 1] # "none" => r.match # i
            /\ IF good = {}
               THEN r.match = -1 /\ r.attempts = Len(b)
                    /\ r.tried = [k \in 1..Len(b) |-> k - 1]
               ELSE r.match \in good /\ (\A g \in good : r.match <= g)
                    /\ r.attempts = r.match + 1
            /\ ~verr /\ ~startErr /\ ~panicked
    /\ (Returned("vulkanBatchVerify") /\ Len(call.batch) > 0
        /\ (~call.uploadOk \/ ~call.dispatchOk)) =>
            /\ ret.val.match = -1
            /\ ret.val.attempts = Len(CutBatch(call.batch, call.batchSize))
            /\ ~verr /\ ~startErr /\ ~panicked

\* the password met a close error as first candidate and was passed over;
\* the scan went on and reported it as second candidate
C21_Witness ==
    /\ Returned("cpuBatchVerifyFaulty")
    /\ call.batch = <<(<<"a">>), (<<"a">>)>>
    /\ call.faults = <<"close", "none">>
    /\ ret.val.match = 1 /\ ret.val.attempts = 2

\* C22: given a batch longer than its capacity, the GPU worker's BatchVerify
\* uploads and checks only the first capacity candidates: the attempts it
\* returns equal the capacity, a match index is below the capacity, and with
\* upload, dispatch and download working the match is the first of those
\* candidates that is the password, or -1 when none of them is.
C22_TruncatedToCapacity ==
    (Returned("vulkanBatchVerify") /\ Len(call.batch) > call.batchSize) =>
        LET cap == call.batchSize
            hits == {i \in 0..(cap - 1) :
                        call.batch[i + 1] = call.zipBytes.password}
        IN  /\ ret.val.attempts = cap
            /\ ret.val.match < cap
            /\ (call.uploadOk /\ call.dispatchOk /\ call.mapOk) =>
                   IF hits = {} THEN ret.val.match = -1
                   ELSE ret.val.match \in hits
                        /\ \A h \in hits : ret.val.match <= h

\* a batch of three for two slots whose only password is the third
\* candidate: no match, two attempts
C22_Witness ==
    /\ Returned("vulkanBatchVerify")
    /\ call.batchSize = GpuBatchSmall
    /\ call.batch = <<(<<"b">>), (<<"b">>), (<<"a">>)>>
    /\ call.uploadOk /\ call.dispatchOk /\ call.mapOk
    /\ ret.val = [match |-> -1, attempts |-> GpuBatchSmall]

\* C23: Close is idempotent for both backends: after two calls of Close the
\* worker is as it is after one, and no backend-owned resource has been
\* released more than once.
C23_CloseIdempotent ==
    (Returned("Close") /\ call.times >= 1) =>
        /\ ret.val = Close(call.worker)
        /\ \A r \in VulkanResources : ret.val.released[r] <= 1

LocalReadable(z, lho) ==
    /\ lho + LocalSize <= Len(z)
    /\ HasSig(z, lho, SigLocal)
    /\ lho + LocalSize + U16(z, lho + 26) + U16(z, lho + 28)
           + CipherHeaderSize <= Len(z)

\* the archive is structurally inconsistent from the record at offset on,
\* with remaining records still declared: a record out of range, a record
\* without its signature, a qualifying record whose local header cannot be
\* read, or in the end no qualifying record at all
RECURSIVE InconsistentFrom(_, _, _, _)
InconsistentFrom(z, offset, remaining, anyQualifying) ==
    IF remaining = 0 THEN ~anyQualifying
    ELSE IF offset + CentralSize > Len(z) THEN TRUE
    ELSE IF ~HasSig(z, offset, SigCentral) THEN TRUE
    ELSE LET r == CentralRecord(z, offset) IN
         IF IsStoredEncrypted(r) /\ ~LocalReadable(z, r.localHeaderOffset)
         THEN TRUE
         ELSE InconsistentFrom(z, NextOffset(offset, r), remaining - 1,
                               anyQualifying \/ IsStoredEncrypted(r))

\* the highest offset i <= len - 22 holding the EOCD signature, -1 for none
HighestEOCD(z) ==
    LET at == {i \in 0..(Len(z) - EOCDSize) : HasSig(z, i, SigEOCD)} IN
    IF at = {} THEN -1 ELSE CHOOSE i \in at : \A j \in at : j <= i

Inconsistent(z) ==
    \/ HighestEOCD(z) = -1
    \/ LET eocd == HighestEOCD(z) IN
       \/ U32(z, eocd + 16) >= Len(z)
       \/ InconsistentFrom(z, U32(z, eocd + 16), U16(z, eocd + 10), FALSE)

\* C24: on every structurally inconsistent archive (central-directory
\* offset or a declared record out of range, a record without its signature,
\* a qualifying record whose local header is out of range, lacks its
\* signature or has fewer than 12 bytes after it, or no qualifying entry)
\* parseZipHeaders returns an error and no result.
C24_InconsistencyIsError ==
    (Returned("parseZipHeaders") /\ Inconsistent(call.zipBytes)) =>
        ret.val.kind = "err"

\* the uncompressed size of the central-directory record at offset o
SizeAt(z, o) == U32(z, o + 24)

\* o is the first of the records in Q with the smallest uncompressed size
FirstSmallest(z, o, Q) ==
    /\ o \in Q
    /\ \A q \in Q : SizeAt(z, o) <= SizeAt(z, q)
    /\ \A q \in Q : SizeAt(z, q) = SizeAt(z, o) => o <= q

\* the visited records with flag bit 0 set and method 0
StoredEncrypted(z, visited) ==
    {o \in Range(visited) : U16(z, o + 8) % 2 = 1 /\ U16(z, o + 10) = 0}

C27_HighestEOCD ==
    /\ Returned("findEOCD") => ret.val = HighestEOCD(call.zipBytes)
    /\ Returned("parseZipHeaders") =>
        LET z == call.zipBytes IN
        IF Len(z) < EOCDSize \/ HighestEOCD(z) = -1
        THEN ret.val.kind = "err" /\ ret.val.why \in {"small", "eocd"}
        ELSE ret.val.eocd = HighestEOCD(z)

\* the signature occurs at offsets 3 and 25 of a 47-byte buffer, both at
\* most len - 22, and the parser works from 25
C27_Witness ==
    /\ Returned("parseZipHeaders")
    /\ Len(call.zipBytes) = 2 * EOCDSize + 3
    /\ HasSig(call.zipBytes, 3, SigEOCD)
    /\ HasSig(call.zipBytes, EOCDSize + 3, SigEOCD)
    /\ ret.val.eocd = EOCDSize + 3

\* the offset after the central-directory record at o, from its bytes
After(z, o) == o + 46 + U16(z, o + 28) + U16(z, o + 30) + U16(z, o + 32)

\* visited is a chain of records from the declared directory offset: it
\* starts there, each record has the signature 0x02014b50, and each next
\* record lies 46 plus the name, extra and comment lengths further
Chain(z, eocd, visited) ==
    /\ visited # <<>> => visited[1] = U32(z, eocd + 16)
    /\ \A k \in 1..Len(visited) : HasSig(z, visited[k], SigCentral)
    /\ \A k \in 1..(Len(visited) - 1) : visited[k + 1] = After(z, visited[k])

\* the offset of the record after the visited ones
Upcoming(z, eocd, visited) ==
    IF visited = <<>> THEN U32(z, eocd + 16)
    ELSE After(z, visited[Len(visited)])

\* the walk of parseZipHeaders ran (the directory offset was in range)
Walked == Returned("parseZipHeaders") /\ "visited" \in DOMAIN ret.val

Parsed == Returned("parseZipHeaders") /\ ret.val.kind = "ok"

\* C29: the cipher header returned is the 12 bytes at offset
\* localHeaderOffset + 30 + nameLen + extraLen, localHeaderOffset taken from
\* the selected central-directory record and nameLen and extraLen from the
\* local header at that offset, which starts with signature 0x04034b50.
C29_CipherHeaderBytes ==
    Parsed =>
        LET z == call.zipBytes
            lho == U32(z, ret.val.best + 42)
            off == lho + 30 + U16(z, lho + 26) + U16(z, lho + 28)
        IN  /\ HasSig(z, lho, SigLocal)
            /\ off + 12 <= Len(z)
            /\ ret.val.info.EncryptedHeader = [j \in 1..12 |-> z[off + j]]

\* the second entry of a two-entry archive is selected: its cipher header
\* is returned, found behind a local name and extra field whose lengths
\* differ from those of the central-directory record
C29_Witness ==
    /\ Parsed
    /\ ret.val.best = CentralOffsetOf(2, 2)
    /\ U32(call.zipBytes, ret.val.best + 42) = LocalOffsetOf(2)
    /\ U16(call.zipBytes, LocalOffsetOf(2) + 26)
           # U16(call.zipBytes, ret.val.best + 28)
    /\ ret.val.info.EncryptedHeader = EntryCipher(2)

\* C30: the check byte is the high byte of the 16-bit modification time
\* when flag bit 3 of the selected central-directory record is set, and
\* bits 24-31 of the CRC-32 otherwise, both read from that record; the
\* flag, CRC-32 and time returned are the record's as well.
C30_CheckByteFromRecord ==
    Parsed =>
        LET z == call.zipBytes
            o == ret.val.best
            flag == U16(z, o + 8)
            modTime == U16(z, o + 12)
            crc == U32(z, o + 16)
        IN  /\ ret.val.info.CheckByte =
                   IF (flag \div 8) % 2 = 1 THEN modTime \div 256
                   ELSE crc \div 16777216
            /\ ret.val.info.Flag = flag
            /\ ret.val.info.ModTime = modTime
            /\ ret.val.info.CRC32 = crc

\* the first entry is selected with flag bit 3 set: the check byte is the
\* high byte of its modification time, not of its CRC-32 and not the zero
\* the local header holds
C30_Witness ==
    /\ Parsed
    /\ ret.val.best = CentralOffsetOf(Len(ret.val.visited), 1)
    /\ (ret.val.info.Flag \div 8) % 2 = 1
    /\ ret.val.info.CheckByte = EntryTime(1) \div 256
    /\ ret.val.info.CheckByte # EntryCRC(1) \div 16777216
    /\ U16(call.zipBytes, LocalOffsetOf(1) + 10) = 0

\* C31: after a dispatch the match index returned is the lowest index
\* i < batchLen whose downloaded result slot is nonzero, and -1 when the
\* first batchLen slots are all zero (or the results could not be mapped);
\* a slot at or beyond batchLen is never reported.
C31_LowestNonZeroSlot ==
    Returned("downloadResults") =>
        LET hits == {i \in 0..(call.batchLen - 1) : call.slots[i + 1] # 0} IN
        /\ ret.val < call.batchLen
        /\ IF ~call.mapOk \/ hits = {} THEN ret.val = -1
           ELSE ret.val \in hits /\ \A h \in hits : ret.val <= h

\* the first two slots are nonzero in a batch of two and so is the slot
\* beyond the batch: index 0 is returned
C31_Witness ==
    /\ Returned("downloadResults")
    /\ call.mapOk
    /\ call.slots = <<7, 1, 1>> /\ call.batchLen = 2
    /\ ret.val = 0

\* the first position of resource r in the release log (0: not released)
FirstRelease(log, r) ==
    IF \E k \in 1..Len(log) : log[k] = r
    THEN CHOOSE k \in 1..Len(log) : log[k] = r /\ \A j \in 1..(k - 1) : log[j] # r
    ELSE 0

BufferResources == VulkanResources \ {"descriptorSet", "commandBuffer"}

\* C32: in every life of the GPU backend the releases come in dependency
\* order: when the descriptor set is freed, every buffer has been destroyed
\* and its memory freed before, each buffer before its memory; and the
\* command pool is never destroyed before a command buffer allocated from it
\* is freed.
C32_ReleaseOrder ==
    Returned("releaseLog") =>
        LET log == ret.val
            at(r) == FirstRelease(log, r)
        IN  /\ at("descriptorSet") # 0 =>
                \A b \in BufferResources :
                    at(b) # 0 /\ at(b) < at("descriptorSet")
            /\ \A b \in {"passwordLengths", "passwordData", "zipHeader", "results"} :
                    at(b \o "Memory") # 0 =>
                        at(b \o "Buffer") # 0 /\ at(b \o "Buffer") < at(b \o "Memory")
            /\ at("commandBuffer") # 0 =>
                    /\ at("descriptorSet") # 0
                    /\ at("descriptorSet") < at("commandBuffer")
                    /\ at("commandPool") = 0 \/ at("commandBuffer") < at("commandPool")
            /\ at("commandPool") # 0 => at("commandBuffer") = 0

\* a worker was built and closed once: ten releases, the descriptor set
\* ninth and the command buffer last
C32_Witness ==
    /\ Returned("releaseLog")
    /\ call.vfail = "none" /\ call.wfail = "none" /\ call.closes = 1
    /\ Len(ret.val) = 10
    /\ ret.val[9] = "descriptorSet" /\ ret.val[10] = "commandBuffer"

C34_NoOutOfRangeRead ==
    Returned("parseZipHeaders") => ret.val.kind \in {"ok", "err"}

\* C35: for every batch of at most capacity candidates, whatever their byte
\* lengths, uploadPasswordData writes every packed word at an index inside
\* the staging array of capacity * MaxPasswordLength / 4 words and every
\* candidate's byte length into its own slot of the lengths array; no write
\* falls outside either array.
C35_WritesInsideArrays ==
    Returned("uploadPasswordData") =>
        LET words == (call.batchSize * MaxPasswordLength) \div 4 IN
        /\ ret.val.kind = "ok"
        /\ \A k \in 1..Len(ret.val.dataWrites) :
               ret.val.dataWrites[k] >= 0 /\ ret.val.dataWrites[k] < words
        /\ \A i \in 1..Len(call.lens) :
               /\ ret.val.lengthWrites[i] = i - 1
               /\ i - 1 < call.batchSize
               /\ ret.val.lengths[i] = call.lens[i]

\* C36: in no interleaving is a value sent on the jobs, stats or result
\* channel after that channel was closed (no goroutine panics on a send),
\* and whenever one of the three channels is closed the generator, the
\* sampler and every worker have exited.
C36_NoSendAfterClose ==
    /\ ~panicked
    /\ (jobsClosed \/ statsClosed \/ resultClosed) => AllExited

\* jobs and stats are closed, every sender of the WaitGroup has exited, and
\* the completion step has just sent the not-found Result on the result
\* channel, which is still open
C36_Witness ==
    /\ cpc = "closeResult"
    /\ jobsClosed /\ statsClosed /\ ~resultClosed
    /\ AllExited
    /\ resultCh = <<NoResult>>

\* C37: FoundCallback is invoked at most once per run, and with the
\* password of the published Result, also when several workers match.
C37_CallbackAtMostOnce ==
    /\ Len(cbLog) <= 1
    /\ \A k \in 1..Len(cbLog) : result.Found /\ cbLog[k] = result.Password

\* the construction of every worker's verifier worker has failed
AllWorkersFailed == started /\ \A id \in WorkerIds : werr[id]

\* C38: when worker construction fails for every worker slot, the run
\* reaches its terminal state without an external cancellation: the
\* not-found Result is sent and the result channel is closed.
C38_FailedRunTerminates ==
    AllWorkersFailed ~> (parentDone \/ (resultClosed /\ onceResult /\ ~result.Found))

\* C39: once the TUI model has processed both the stats-closed and the
\* result-closed message, in either order, it has issued Quit.
C39_QuitAfterBothClosed ==
    (~ui.statsOpen /\ ~ui.resultOpen) => ui.quit

====
